---- MODULE Spec2Model ----
(***************************************************************************)
(* Model of the transcription / summarization pipeline of the mab          *)
(* repository: the unit store (documents, document_files), the bulk job    *)
(* table (transcription_batches), the bulk path of TranscriptionManager    *)
(* (create batch, check batches, process results, cleanup failed), the     *)
(* synchronous runner (BackgroundTranscriber over                          *)
(* UnifiedTranscriptionManager) and the DocumentSummarizer.                *)
(***************************************************************************)
EXTENDS Integers, Sequences, FiniteSets, TLC

\* ------------------------------------------------------------------ bounds
NumFiles == 2      \* rows of document_files in the bulk / pipeline models
NumDocs == 2       \* rows of documents
MaxBatches == 1    \* bulk jobs submitted in one behaviour
RunnerFiles == 3   \* rows of document_files in the runner model
BatchSize == 2     \* BackgroundTranscriber.batchSize, scaled down
MaxRuns == 2       \* batches the runner starts in one behaviour
MaxScans == 1      \* times the directory scan is run again
PipelineBatches == 1 \* bulk jobs submitted while a runner is at work

\* ------------------------------------------------------------- vocabulary
NULL == "NULL"
SET == "SET"
NoFilter == "NULL"
NoMatch == 0 - 1

FileIds == 1..NumFiles
DocIds == 1..NumDocs

Statuses == {"pending", "submitted", "completed", "failed"}

\* date codes (YYMMDD of the file name); documents.date is 19YY-MM-DD, whose
\* string order is the numeric order of the code
DateCodes == <<430429, 430101, 430102>>

DocTypes == {"wartime_letters", "postcards"}

NullText == [src |-> "null", job |-> 0]
SyncText == [src |-> "sync", job |-> 0]
BatchText(b) == [src |-> "batch", job |-> b]
EmptyText == [src |-> "empty", job |-> 0]
\* the text of job b with white space around it
PaddedText(b) == [src |-> "padded", job |-> b]

\* if (text): null, undefined and the empty string are falsy
Truthy(text) == text.src \notin {"null", "empty"}

\* String.prototype.trim
Trim(text) == IF text.src = "padded" THEN BatchText(text.job) ELSE text

\* transcription_metadata: the parsed JSON, or null
Meta(kind, service, model, error, batch_id, retryable) ==
  [kind |-> kind, service |-> service, model |-> model, error |-> error,
   batch_id |-> batch_id, retryable |-> retryable]

NullMeta == Meta("null", "", "", "", 0, FALSE)

Min(a, b) == IF a < b THEN a ELSE b

RECURSIVE SeqToSet(_)
SeqToSet(s) == IF s = <<>> THEN {} ELSE {Head(s)} \cup SeqToSet(Tail(s))

\* ---------------------------------------------------------------- state
VARIABLES
  documents,   \* table documents: id -> row
  files,       \* table document_files: id -> row
  batches,     \* table transcription_batches: batch_id -> row
  api,         \* the external batch service: batch_id -> job
  subPc,       \* createTranscriptionBatch: the step the call is at
  subFiles,    \* createTranscriptionBatch: its files argument (ids)
  subRows,     \* number of bulk job rows when the call started
  subErr,      \* the step at which the last call threw, "none" if it did not
  serviceName, \* UnifiedTranscriptionManager.serviceName
  isRunning,   \* BackgroundTranscriber.isRunning
  pc,          \* BackgroundTranscriber: where run() is
  batchCount,  \* run: batchCount
  queue,       \* processBatch: files, the rows fetched (ids)
  idx,         \* processBatch: i + 1, the place in files
  results,     \* processBatch: what transcribeFile returned for files[0..i]
  stats,       \* BackgroundTranscriber.stats
  stopCalled,  \* stop() has been called during this run
  runRefused,  \* a call of run() has returned at once because isRunning was set
  cleanups,    \* number of times cleanup() has run
  fatal,       \* an error has reached the catch block of run()
  sumRet,      \* what the last generateSummary call did and returned
  sumPc,       \* main, case 'batch': "idle", or "batch" inside generateBatchSummaries
  sumQueue,    \* generateBatchSummaries: the documentIds still to be handled
  sumForce,    \* generateBatchSummaries: force
  sumCount,    \* generateBatchSummaries: processed, successful, failed, skipped
  recPc,       \* processTranscriptionResults: "idle", "batch" (top of the loop over
               \* the batches) or "lines" (inside the loop over the lines)
  recQueue,    \* processTranscriptionResults: batches, from the current one on
  recLines,    \* processTranscriptionResults: lines that are still to be handled
  recCount,    \* processTranscriptionResults: transcribed and errors so far
  recRet,      \* how the last call of processTranscriptionResults ended: its counts,
               \* and whether it returned them or was interrupted
  batch_jobs,  \* table batch_jobs of the generic engine: rows in order of insertion
  jobApi,      \* the external batch service: the jobs of the generic engine
  bsRunning,   \* BackgroundSummarizer.isRunning
  bsPc,        \* BackgroundSummarizer: where run() is
  bsQueue,     \* BackgroundSummarizer.processBatch: documents still to be handled
  bsCleanups,  \* number of times BackgroundSummarizer.cleanup() has run
  lastRequest, \* api-server: lastRequest, in periods of the watchdog
  inFlight,    \* api-server: inFlight
  now,         \* api-server: Date.now(), in periods of the watchdog
  active,      \* requests the server has received and not answered or lost
  exited,      \* api-server: process.exit(0) has been called
  tPc,         \* BackgroundTranscriber processes side by side: where run() of
               \* each one is ("idle" before it is started)
  tBatchCount, \* run of each process: batchCount
  tQueue,      \* processBatch of each process: files
  tIdx,        \* processBatch of each process: i + 1
  sent,        \* the files each process has called transcribeFile for
  lastEnd      \* how the transcribeFile call that ended last for each file ended:
               \* "none", "success", "retryable" or "permanent"

bulkVars == <<documents, files, batches, api, subPc, subFiles, subRows, subErr>>
ctlVars == <<runRefused, cleanups, fatal>>
runnerVars == <<serviceName, isRunning, pc, batchCount, queue, idx, results,
                stats, stopCalled, ctlVars>>
batchSumVars == <<sumPc, sumQueue, sumForce, sumCount>>
recVars == <<recPc, recQueue, recLines, recCount, recRet>>
otherVars == <<runnerVars, sumRet, batchSumVars, recVars>>
jobVars == <<batch_jobs, jobApi>>
bsVars == <<bsRunning, bsPc, bsQueue, bsCleanups>>
idleVars == <<lastRequest, inFlight, now, active, exited>>
peerVars == <<tPc, tBatchCount, tQueue, tIdx, sent, lastEnd>>
auxVars == <<jobVars, bsVars, idleVars, peerVars>>
vars == <<bulkVars, otherVars, auxVars>>

\* ------------------------------------------------------- custom identifier
\* A custom_id is a string; it is modelled as a sequence of character codes:
\* 0..9 the decimal digits, ChP the literal text transcribe-file- and ChX any
\* other character.
ChP == 10
ChX == 11

RECURSIVE Digits(_)
Digits(n) == IF n < 10 THEN <<n>> ELSE Append(Digits(n \div 10), n % 10)

\* a custom_id made of the prefix and the last digit of the id
CustomId_LastDigit(id) == <<ChP, id % 10>>

\* `transcribe-file-${file.id}`
CustomId(id) == <<ChP>> \o Digits(id)

IsDigit(c) == c \in 0..9

\* the longest run of digits at the head of s, as a number (\d+ then parseInt)
RECURSIVE DigitRun(_, _)
DigitRun(s, acc) ==
  IF s # <<>> /\ IsDigit(Head(s)) THEN DigitRun(Tail(s), acc * 10 + Head(s))
  ELSE acc

\* custom_id.match(/transcribe-file-(\d+)/): the first place where the prefix
\* is followed by at least one digit; NoMatch when there is none
RECURSIVE ParseCustomId(_)
ParseCustomId(s) ==
  IF Len(s) < 2 THEN NoMatch
  ELSE IF Head(s) = ChP /\ IsDigit(s[2]) THEN DigitRun(Tail(s), 0)
  ELSE ParseCustomId(Tail(s))

\* ------------------------------------------------------------ unit store
\* where('id', id).update({transcription, transcription_status,
\* transcription_metadata}); no row matches an id that is not in the table
SetResult(fs, id, text, status, meta) ==
  IF id \in DOMAIN fs
  THEN [fs EXCEPT ![id] = [@ EXCEPT !.transcription_status = status,
                                    !.transcription = text,
                                    !.transcription_metadata = meta]]
  ELSE fs

\* where('id', id).update({transcription_status, transcription_metadata})
SetStatus(fs, id, status, meta) ==
  IF id \in DOMAIN fs
  THEN [fs EXCEPT ![id] = [@ EXCEPT !.transcription_status = status,
                                    !.transcription_metadata = meta]]
  ELSE fs

RECURSIVE SortedSeq(_)
SortedSeq(S) ==
  IF S = {} THEN <<>>
  ELSE LET m == CHOOSE x \in S : \A y \in S : x <= y
       IN <<m>> \o SortedSeq(S \ {m})

DateOf(fs, docs, id) == docs[fs[id].document_id].date

\* the rows a query `where transcription_status = pending [and d.type = tf]`
\* matches
PendingIds(fs, docs, tf) ==
  {id \in DOMAIN fs : /\ fs[id].transcription_status = "pending"
                      /\ (tf = NoFilter \/ docs[fs[id].document_id].type = tf)}

\* orderBy('d.date'): every arrangement of the matching rows in which the
\* dates do not decrease; rows of equal date come in any order
DateOrderings(fs, docs, S) ==
  {q \in [1..Cardinality(S) -> S] :
     /\ \A i, j \in DOMAIN q : i # j => q[i] # q[j]
     /\ \A i, j \in DOMAIN q : i < j => DateOf(fs, docs, q[i]) <= DateOf(fs, docs, q[j])}

\* getPendingFiles(limit, typeFilter): the results the query can return
GetPendingFiles(fs, docs, limit, tf) ==
  {SubSeq(q, 1, Min(limit, Len(q))) : q \in DateOrderings(fs, docs, PendingIds(fs, docs, tf))}

\* ---------------------------------------------------- external batch service
ApiStatuses == {"validating", "in_progress", "completed", "failed", "expired"}
ApiTerminal == {"completed", "failed", "expired"}

LineOutcomes == {"ok", "error", "absent"}

\* the other lines an output file can hold for a request: the text in
\* response.body.output_text only ("direct"), text with white space around it
\* ("padded"), an empty text in the message ("empty"), an output list without
\* a message next to a filled output_text ("shadowed"), no text in either place
\* ("notext"), a custom_id that is not transcribe-file-<id> ("badid",
\* "error_badid") and a line that is not JSON ("nojson")
ShapeOutcomes ==
  {"direct", "padded", "empty", "shadowed", "notext", "badid", "error_badid", "nojson"}

\* one line of the output file for the request of unit id in job b:
\* custom_id, error (its message, "" when there is none), output ("message":
\* response.body.output whose first message starts with an output_text
\* content, "other": a list without one, "absent"), text (that content's
\* text), output_text (response.body.output_text, NullText when absent)
OutputLine(b, id, oc) ==
  [custom_id |-> IF oc \in {"badid", "error_badid"} THEN <<ChX>> \o Digits(id)
                 ELSE IF oc = "foreign" THEN CustomId(id + 1)
                 ELSE CustomId(id),
   json |-> oc # "nojson",
   error |-> IF oc \in {"error", "error_badid"} THEN "item error" ELSE "",
   output |-> IF oc \in {"ok", "padded", "empty", "badid", "foreign"} THEN "message"
              ELSE IF oc = "shadowed" THEN "other" ELSE "absent",
   text |-> IF oc \in {"ok", "badid", "foreign"} THEN BatchText(b)
            ELSE IF oc = "padded" THEN PaddedText(b)
            ELSE IF oc = "empty" THEN EmptyText ELSE NullText,
   output_text |-> IF oc \in {"direct", "shadowed"} THEN BatchText(b) ELSE NullText]

RECURSIVE OutputLines(_, _, _)
OutputLines(b, ids, ocs) ==
  IF ids = <<>> THEN <<>>
  ELSE (IF Head(ocs) = "absent" THEN <<>> ELSE <<OutputLine(b, Head(ids), Head(ocs))>>)
       \o OutputLines(b, Tail(ids), Tail(ocs))

CountOf(ocs, S) == Cardinality({i \in DOMAIN ocs : ocs[i] \in S})

\* the service starts working on a validated job
ApiStart(b) ==
  /\ b \in DOMAIN api
  /\ api[b].status = "validating"
  /\ api' = [api EXCEPT ![b].status = "in_progress"]
  /\ UNCHANGED <<documents, files, batches, subPc, subFiles, subRows, subErr, otherVars>>
  /\ UNCHANGED auxVars

\* the service rejects the input file
ApiReject(b) ==
  /\ b \in DOMAIN api
  /\ api[b].status = "validating"
  /\ api' = [api EXCEPT ![b].status = "failed"]
  /\ UNCHANGED <<documents, files, batches, subPc, subFiles, subRows, subErr, otherVars>>
  /\ UNCHANGED auxVars

\* the outcomes the service counts as failed requests
FailedOutcomes == {"error", "absent", "error_badid"}

\* the job b as the service reports it once its requests ended as ocs
CompletedJob(job, b, ocs) ==
  LET lines == OutputLines(b, job.file_ids, ocs) IN
  [job EXCEPT !.status = "completed",
              !.output = lines,
              !.output_file_id = IF lines = <<>> THEN 0 ELSE b,
              !.error_file_id = IF CountOf(ocs, FailedOutcomes) > 0 THEN b ELSE 0,
              !.completed = CountOf(ocs, (LineOutcomes \cup ShapeOutcomes) \ FailedOutcomes),
              !.failed = CountOf(ocs, FailedOutcomes)]

\* the job completes: each request succeeded, failed with an error line, or
\* failed without a line in the output file
ApiComplete(b) ==
  /\ b \in DOMAIN api
  /\ api[b].status = "in_progress"
  /\ \E ocs \in [1..Len(api[b].file_ids) -> LineOutcomes] :
       api' = [api EXCEPT ![b] = CompletedJob(@, b, ocs)]
  /\ UNCHANGED <<documents, files, batches, subPc, subFiles, subRows, subErr, otherVars>>
  /\ UNCHANGED auxVars

\* the job completes with an output file that holds any of the lines above
ApiCompleteAnyShape(b) ==
  /\ b \in DOMAIN api
  /\ api[b].status = "in_progress"
  /\ \E ocs \in [1..Len(api[b].file_ids) -> LineOutcomes \cup ShapeOutcomes] :
       api' = [api EXCEPT ![b] = CompletedJob(@, b, ocs)]
  /\ UNCHANGED <<documents, files, batches, subPc, subFiles, subRows, subErr, otherVars>>
  /\ UNCHANGED auxVars

\* the job completes with an output file in which a line can bear the
\* custom_id of the file with the next id ("foreign") instead of its own
ApiCompleteForeign(b) ==
  /\ b \in DOMAIN api
  /\ api[b].status = "in_progress"
  /\ \E ocs \in [1..Len(api[b].file_ids) -> LineOutcomes \cup {"foreign"}] :
       api' = [api EXCEPT ![b] = CompletedJob(@, b, ocs)]
  /\ UNCHANGED <<documents, files, batches, subPc, subFiles, subRows, subErr, otherVars>>
  /\ UNCHANGED auxVars

\* the service finishes one more request of a job it is working on:
\* request_counts.completed grows and the status stays in_progress
ApiWork(b) ==
  /\ b \in DOMAIN api
  /\ api[b].status = "in_progress"
  /\ api[b].completed + api[b].failed < Len(api[b].file_ids)
  /\ api' = [api EXCEPT ![b].completed = @ + 1]
  /\ UNCHANGED <<documents, files, batches, subPc, subFiles, subRows, subErr, otherVars>>
  /\ UNCHANGED auxVars

\* the completion window ends first
ApiExpire(b) ==
  /\ b \in DOMAIN api
  /\ api[b].status = "in_progress"
  /\ \E f \in 0..Len(api[b].file_ids) :
       api' = [api EXCEPT ![b] = [@ EXCEPT !.status = "expired", !.failed = f]]
  /\ UNCHANGED <<documents, files, batches, subPc, subFiles, subRows, subErr, otherVars>>
  /\ UNCHANGED auxVars

\* ------------------------------------------------- bulk submitter (CLI)
\* the id the service gives the next job it creates
NextBatchId == Len(api) + 1

\* create-batch <n> passes getPendingFiles(n)
SubmitArguments ==
  UNION {GetPendingFiles(files, documents, n, NoFilter) : n \in 1..Cardinality(DOMAIN files)}

\* main, case 'create-batch': the files are read and the call begins
SubmitBegin ==
  /\ subPc = "idle"
  /\ Len(api) < MaxBatches
  /\ \E q \in SubmitArguments :
       /\ q # <<>>
       /\ subFiles' = q
  /\ subPc' = "upload"
  /\ subRows' = Cardinality(DOMAIN batches)
  /\ subErr' = "none"
  /\ UNCHANGED <<documents, files, batches, api, otherVars>>
  /\ UNCHANGED auxVars

\* whereIn('id', fileIds).update({transcription_status: 'submitted'})
MarkSubmitted(fs, ids) ==
  [id \in DOMAIN fs |->
     IF id \in SeqToSet(ids) THEN [fs[id] EXCEPT !.transcription_status = "submitted"]
     ELSE fs[id]]

\* a submitter that marks the files before the job exists
SubmitUpload_MarksFiles ==
  /\ subPc = "upload"
  /\ subPc' = "create"
  /\ files' = MarkSubmitted(files, subFiles)
  /\ UNCHANGED <<documents, batches, api, subFiles, subRows, subErr, otherVars>>
  /\ UNCHANGED auxVars

\* createTranscriptionBatch: openai.files.create returns
SubmitUpload ==
  /\ subPc = "upload"
  /\ subPc' = "create"
  /\ UNCHANGED <<documents, files, batches, api, subFiles, subRows, subErr, otherVars>>
  /\ UNCHANGED auxVars

\* the job openai.batches.create returns
CreatedJob(ids) ==
  [status |-> "validating", file_ids |-> ids, output |-> <<>>,
   output_file_id |-> 0, error_file_id |-> 0, completed |-> 0, failed |-> 0]

\* createTranscriptionBatch: openai.batches.create returns; the job now
\* exists at the service
SubmitCreateJob ==
  /\ subPc = "create"
  /\ api' = Append(api, CreatedJob(subFiles))
  /\ subPc' = "insert"
  /\ UNCHANGED <<documents, files, batches, subFiles, subRows, subErr, otherVars>>
  /\ UNCHANGED auxVars

\* the row inserted for the job that batches.create returned
NewBatchRow(job, ids) ==
  [status |-> job.status, output_file_id |-> 0, error_file_id |-> 0,
   request_count |-> Len(ids), completed_count |-> 0, failed_count |-> 0,
   processed_at |-> NULL, cleaned |-> FALSE, file_ids |-> ids]

\* createTranscriptionBatch: the row of the job is inserted
SubmitInsertRow ==
  /\ subPc = "insert"
  /\ LET b == Len(api) IN
       batches' = [x \in DOMAIN batches \cup {b} |->
                     IF x = b THEN NewBatchRow(CreatedJob(subFiles), subFiles) ELSE batches[x]]
  /\ subPc' = "mark"
  /\ UNCHANGED <<documents, files, api, subFiles, subRows, subErr, otherVars>>
  /\ UNCHANGED auxVars

\* createTranscriptionBatch: the files are marked and the batch id returned
SubmitMarkFiles ==
  /\ subPc = "mark"
  /\ files' = MarkSubmitted(files, subFiles)
  /\ subPc' = "idle"
  /\ subFiles' = <<>>
  /\ subRows' = 0
  /\ UNCHANGED <<documents, batches, api, subErr, otherVars>>
  /\ UNCHANGED auxVars

\* createTranscriptionBatch: the call awaited at the current step throws
\* (catch, log, rethrow), or the process stops there
SubmitThrow ==
  /\ subPc \in {"upload", "create", "insert", "mark"}
  /\ subPc' = "idle"
  /\ subErr' = subPc
  /\ subFiles' = <<>>
  /\ subRows' = 0
  /\ UNCHANGED <<documents, files, batches, api, otherVars>>
  /\ UNCHANGED auxVars

\* -------------------------------------------------------- bulk job tracker
\* the update of one row from the job the service reports
MirrorRow(row, job) ==
  IF job.status # row.status
  THEN [row EXCEPT !.status = job.status,
                   !.output_file_id = job.output_file_id,
                   !.error_file_id = job.error_file_id,
                   !.completed_count = job.completed,
                   !.failed_count = job.failed]
  ELSE row

\* a tracker that also puts the files of a job that ended back to pending
CheckTranscriptionBatches_ResetsFiles ==
  /\ subPc = "idle"
  /\ batches' = [b \in DOMAIN batches |->
                   IF batches[b].processed_at = NULL
                   THEN MirrorRow(batches[b], api[b]) ELSE batches[b]]
  /\ files' = [id \in DOMAIN files |->
                 IF \E b \in DOMAIN batches :
                      /\ id \in SeqToSet(batches[b].file_ids)
                      /\ batches[b].processed_at = NULL
                      /\ api[b].status \in ApiTerminal
                 THEN [files[id] EXCEPT !.transcription_status = "pending"]
                 ELSE files[id]]
  /\ UNCHANGED <<documents, api, subPc, subFiles, subRows, subErr, otherVars>>
  /\ UNCHANGED auxVars

\* checkTranscriptionBatches: every row with processed_at null is compared
\* with the service and updated when the status differs
CheckTranscriptionBatches ==
  /\ subPc = "idle"
  /\ batches' = [b \in DOMAIN batches |->
                   IF batches[b].processed_at = NULL
                   THEN MirrorRow(batches[b], api[b]) ELSE batches[b]]
  /\ UNCHANGED <<documents, files, api, subPc, subFiles, subRows, subErr, otherVars>>
  /\ UNCHANGED auxVars

\* ------------------------------------------------------ result reconciler
\* the extraction of the transcription from a result line: found tells
\* whether the line goes on to be stored, text is the transcription
ExtractText(line) ==
  IF line.output # "absent"
  THEN IF line.output = "message" /\ line.text # NullText
       THEN [found |-> TRUE, text |-> Trim(line.text)]
       ELSE [found |-> FALSE, text |-> NullText]
  ELSE IF Truthy(line.output_text)
       THEN [found |-> TRUE, text |-> Trim(line.output_text)]
       ELSE [found |-> FALSE, text |-> NullText]

\* processTranscriptionResults, the body of the loop over the lines;
\* st = [files, processed, errors]
ApplyLine(st, batch_id, line) ==
  LET fileId == ParseCustomId(line.custom_id)
      bad == [st EXCEPT !.errors = @ + 1]
  IN
  IF ~line.json THEN bad
  ELSE IF line.error # "" THEN
    IF fileId # NoMatch
    THEN [bad EXCEPT !.files = SetStatus(@, fileId, "failed",
                         Meta("error", "", "", line.error, batch_id, FALSE))]
    ELSE bad
  ELSE IF ~ExtractText(line).found THEN bad
  ELSE IF fileId = NoMatch THEN bad
  ELSE [st EXCEPT !.files = SetResult(@, fileId, ExtractText(line).text, "completed",
                      Meta("ok", "openai", "gpt-5", "", batch_id, FALSE)),
                  !.processed = @ + 1]

RECURSIVE ApplyLines(_, _, _)
ApplyLines(st, batch_id, lines) ==
  IF lines = <<>> THEN st
  ELSE ApplyLines(ApplyLine(st, batch_id, Head(lines)), batch_id, Tail(lines))

\* a selection that forgets whereNull('processed_at')
CompletedUnprocessed_AnyMarker(bs) ==
  {b \in DOMAIN bs : bs[b].status = "completed"}

\* where('status', 'completed').whereNull('processed_at')
CompletedUnprocessed(bs) ==
  {b \in DOMAIN bs : bs[b].status = "completed" /\ bs[b].processed_at = NULL}

\* processTranscriptionResults, the body of the loop over the batches;
\* st = [files, batches, processed, errors]
ProcessOneBatch(st, b, jobs) ==
  IF st.batches[b].output_file_id = 0 THEN st
  ELSE LET r == ApplyLines([files |-> st.files, processed |-> 0, errors |-> 0],
                           b, jobs[st.batches[b].output_file_id].output)
       IN [files |-> r.files,
           batches |-> [st.batches EXCEPT ![b].processed_at = SET],
           processed |-> st.processed + r.processed,
           errors |-> st.errors + r.errors]

RECURSIVE ProcessBatches(_, _, _)
ProcessBatches(st, bseq, jobs) ==
  IF bseq = <<>> THEN st
  ELSE ProcessBatches(ProcessOneBatch(st, Head(bseq), jobs), Tail(bseq), jobs)

\* what a call of processTranscriptionResults that handles the first k of the
\* selected batches does to the store
ProcessResultsOutcome(fs, bs, jobs, k) ==
  ProcessBatches([files |-> fs, batches |-> bs, processed |-> 0, errors |-> 0],
                 SubSeq(SortedSeq(CompletedUnprocessed(bs)), 1, k), jobs)

\* { processedCount, errorCount } of a call that handles every selected batch
ProcessResultsReturn(fs, bs, jobs) ==
  LET st == ProcessResultsOutcome(fs, bs, jobs, Cardinality(CompletedUnprocessed(bs)))
  IN [processedCount |-> st.processed, errorCount |-> st.errors]

\* processTranscriptionResults handles every selected batch and returns
ProcessTranscriptionResults ==
  /\ subPc = "idle"
  /\ LET st == ProcessResultsOutcome(files, batches, api,
                                     Cardinality(CompletedUnprocessed(batches))) IN
       /\ files' = st.files
       /\ batches' = st.batches
  /\ UNCHANGED <<documents, api, subPc, subFiles, subRows, subErr, otherVars>>
  /\ UNCHANGED auxVars

\* processTranscriptionResults: the download of the output file of the
\* (k+1)st selected batch throws, and the call ends there (catch, rethrow)
ProcessTranscriptionResultsThrows ==
  /\ subPc = "idle"
  /\ LET sel == SortedSeq(CompletedUnprocessed(batches)) IN
     \E k \in 0..(Len(sel) - 1) :
       /\ batches[sel[k + 1]].output_file_id # 0
       /\ LET st == ProcessResultsOutcome(files, batches, api, k) IN
            /\ files' = st.files
            /\ batches' = st.batches
  /\ UNCHANGED <<documents, api, subPc, subFiles, subRows, subErr, otherVars>>
  /\ UNCHANGED auxVars

\* the reconciler step by step, as the CLI command process runs it
NoReturn == [processedCount |-> 0, errorCount |-> 0, threw |-> FALSE]

ReconcilerIdle ==
  /\ recPc = "idle"
  /\ recQueue = <<>>
  /\ recLines = <<>>
  /\ recCount = [processed |-> 0, errors |-> 0]
  /\ recRet = NoReturn

\* processTranscriptionResults: the batches are selected; with none selected
\* the call returns { processedCount: 0, errorCount: 0 }
ProcessBegin ==
  /\ recPc = "idle"
  /\ LET sel == SortedSeq(CompletedUnprocessed(batches)) IN
       /\ recQueue' = sel
       /\ recPc' = IF sel = <<>> THEN "idle" ELSE "batch"
       /\ recRet' = IF sel = <<>> THEN NoReturn ELSE recRet
  /\ recCount' = [processed |-> 0, errors |-> 0]
  /\ UNCHANGED <<bulkVars, runnerVars, sumRet, batchSumVars, recLines>>
  /\ UNCHANGED auxVars

\* processTranscriptionResults, top of the loop over the batches: a batch
\* without output file is passed over, the output file of another one is
\* downloaded and split into lines; after the last batch the call returns
ProcessNextBatch ==
  /\ recPc = "batch"
  /\ IF recQueue = <<>>
     THEN /\ recPc' = "idle"
          /\ recRet' = [recRet EXCEPT !.processedCount = recCount.processed,
                                      !.errorCount = recCount.errors,
                                      !.threw = FALSE]
          /\ UNCHANGED <<recQueue, recLines>>
     ELSE IF batches[Head(recQueue)].output_file_id = 0
     THEN /\ recQueue' = Tail(recQueue)
          /\ UNCHANGED <<recPc, recLines, recRet>>
     ELSE /\ recLines' = api[batches[Head(recQueue)].output_file_id].output
          /\ recPc' = "lines"
          /\ UNCHANGED <<recQueue, recRet>>
  /\ UNCHANGED <<bulkVars, runnerVars, sumRet, batchSumVars, recCount>>
  /\ UNCHANGED auxVars

\* processTranscriptionResults, the body of the loop over the lines
ProcessLine ==
  /\ recPc = "lines"
  /\ recLines # <<>>
  /\ LET st == ApplyLine([files |-> files, processed |-> recCount.processed,
                          errors |-> recCount.errors],
                         Head(recQueue), Head(recLines)) IN
       /\ files' = st.files
       /\ recCount' = [processed |-> st.processed, errors |-> st.errors]
  /\ recLines' = Tail(recLines)
  /\ UNCHANGED <<documents, batches, api, subPc, subFiles, subRows, subErr,
                 runnerVars, sumRet, batchSumVars, recPc, recQueue, recRet>>
  /\ UNCHANGED auxVars

\* a reconciler that leaves processed_at null when a line was counted as an
\* error
ProcessMark_NotAfterErrors ==
  /\ recPc = "lines"
  /\ recLines = <<>>
  /\ batches' = IF recCount.errors = 0
                THEN [batches EXCEPT ![Head(recQueue)].processed_at = SET]
                ELSE batches
  /\ recQueue' = Tail(recQueue)
  /\ recPc' = "batch"
  /\ UNCHANGED <<documents, files, api, subPc, subFiles, subRows, subErr,
                 runnerVars, sumRet, batchSumVars, recLines, recCount, recRet>>
  /\ UNCHANGED auxVars

\* a reconciler that writes processed_at before it handles the lines
ProcessMark_First ==
  /\ recPc = "lines"
  /\ batches' = [batches EXCEPT ![Head(recQueue)].processed_at = SET]
  /\ IF recLines = <<>>
     THEN recQueue' = Tail(recQueue) /\ recPc' = "batch"
     ELSE UNCHANGED <<recQueue, recPc>>
  /\ UNCHANGED <<documents, files, api, subPc, subFiles, subRows, subErr,
                 runnerVars, sumRet, batchSumVars, recLines, recCount, recRet>>
  /\ UNCHANGED auxVars

\* processTranscriptionResults, after the last line: processed_at is written
ProcessMark ==
  /\ recPc = "lines"
  /\ recLines = <<>>
  /\ batches' = [batches EXCEPT ![Head(recQueue)].processed_at = SET]
  /\ recQueue' = Tail(recQueue)
  /\ recPc' = "batch"
  /\ UNCHANGED <<documents, files, api, subPc, subFiles, subRows, subErr,
                 runnerVars, sumRet, batchSumVars, recLines, recCount, recRet>>
  /\ UNCHANGED auxVars

\* processTranscriptionResults: the call awaited next (download, update)
\* throws and the error leaves the function, or the process is stopped there
ProcessInterrupted ==
  /\ recPc \in {"batch", "lines"}
  /\ recPc' = "idle"
  /\ recQueue' = <<>>
  /\ recLines' = <<>>
  /\ recRet' = [processedCount |-> recCount.processed, errorCount |-> recCount.errors,
                threw |-> TRUE]
  /\ UNCHANGED <<bulkVars, runnerVars, sumRet, batchSumVars, recCount>>
  /\ UNCHANGED auxVars

\* ------------------------------------------------- failure recovery sweep
\* where('status','completed').where('failed_count','>',0).whereNull('processed_at')
FailedUnprocessed(bs) ==
  {b \in DOMAIN bs : /\ bs[b].status = "completed"
                     /\ bs[b].failed_count > 0
                     /\ bs[b].processed_at = NULL}

\* whereIn('id', fileIds).update({transcription_status: 'pending',
\* transcription_metadata: null})
ResetFiles(fs, ids) ==
  [id \in DOMAIN fs |->
     IF id \in SeqToSet(ids)
     THEN [fs[id] EXCEPT !.transcription_status = "pending",
                         !.transcription_metadata = NullMeta]
     ELSE fs[id]]

\* a sweep that resets the files and forgets the update of the batch row
CleanOneBatch_NoMarker(st, b) ==
  [files |-> ResetFiles(st.files, st.batches[b].file_ids),
   batches |-> st.batches,
   cleaned |-> st.cleaned + Len(st.batches[b].file_ids)]

\* cleanupFailedBatches, the body of the loop; st = [files, batches, cleaned]
CleanOneBatch(st, b) ==
  [files |-> ResetFiles(st.files, st.batches[b].file_ids),
   batches |-> [st.batches EXCEPT ![b].processed_at = SET, ![b].cleaned = TRUE],
   cleaned |-> st.cleaned + Len(st.batches[b].file_ids)]

RECURSIVE CleanBatches(_, _)
CleanBatches(st, bseq) ==
  IF bseq = <<>> THEN st
  ELSE CleanBatches(CleanOneBatch(st, Head(bseq)), Tail(bseq))

CleanupOutcome(fs, bs) ==
  CleanBatches([files |-> fs, batches |-> bs, cleaned |-> 0],
               SortedSeq(FailedUnprocessed(bs)))

\* cleanupFailedBatches
CleanupFailedBatches ==
  /\ subPc = "idle"
  /\ LET st == CleanupOutcome(files, batches) IN
       /\ files' = st.files
       /\ batches' = st.batches
  /\ UNCHANGED <<documents, api, subPc, subFiles, subRows, subErr, otherVars>>
  /\ UNCHANGED auxVars

\* ------------------------------------------------- capability provider
\* An error thrown by a transcription service. Its message is a string; the
\* model keeps which of the substrings that isRetryableError looks for the
\* message includes (hasMessage is false for an empty message).
RetryWords == {"RESOURCE_EXHAUSTED", "429", "quota", "rate limit",
               "rate_limit_exceeded", "insufficient_quota", "overloaded"}

Error(cause, message, includes) ==
  [cause |-> cause, hasMessage |-> message # "", message |-> message,
   includes |-> includes]

\* the digits 429 occur in the date code, hence in the file name and path
Has429(code) == \E k \in 0..3 : (code \div (10 ^ k)) % 1000 = 429

\* transcribe: throw new Error(`File not found: ${filePath}`)
FileNotFound(fs, docs, id) ==
  Error("file_not_found", "File not found",
        IF Has429(DateOf(fs, docs, id)) THEN {"429"} ELSE {})

\* the failures of the call to the vendor, by cause
VendorErrors(service) ==
  {Error("rate_limit", "429 rate limit reached", {"429"}),
   Error("quota", "429 quota exceeded",
         IF service = "gemini" THEN {"429", "quota", "RESOURCE_EXHAUSTED"}
         ELSE {"429", "quota"}),
   Error("overload", "model is overloaded", {"overloaded"}),
   Error("timeout", "request timed out", {}),
   Error("invalid_input", "400 invalid file", {}),
   Error("unexpected", "Cannot read properties of undefined", {})}

TransientCauses == {"rate_limit", "quota", "overload", "timeout"}

\* what transcriptionService.transcribe(filePath) can throw
ProviderErrors(service, fs, docs, id) ==
  VendorErrors(service) \cup {FileNotFound(fs, docs, id)}

\* BaseTranscriptionService.isRetryableError (gemini) and
\* OpenAITranscriptionService.isRetryableError
IsRetryableError(service, error) ==
  /\ error.hasMessage
  /\ IF service = "openai"
     THEN error.includes \cap {"rate_limit_exceeded", "429", "quota",
                               "insufficient_quota", "overloaded"} # {}
     ELSE error.includes \cap {"RESOURCE_EXHAUSTED", "429", "quota", "rate limit"} # {}

ServiceModel(service) == IF service = "openai" THEN "gpt-5-mini" ELSE "gemini-2.5-flash"

\* ------------------------------------------------------ synchronous runner
\* transcribeFile, the try block: the service returned a transcription
TranscribeSuccess(fs, service, id) ==
  SetResult(fs, id, SyncText, "completed",
            Meta("ok", service, ServiceModel(service), "", 0, FALSE))

\* transcribeFile, the catch block
TranscribeFailure(fs, service, id, error) ==
  LET isRetryableError == IsRetryableError(service, error) IN
  SetStatus(fs, id, IF isRetryableError THEN "pending" ELSE "failed",
            Meta("error", service, "", error.message, 0, isRetryableError))

RunnerConstructed ==
  /\ isRunning = FALSE
  /\ pc = "idle"
  /\ batchCount = 0
  /\ queue = <<>>
  /\ idx = 0
  /\ results = <<>>
  /\ stats = [totalProcessed |-> 0, totalSuccessful |-> 0, totalFailed |-> 0]
  /\ stopCalled = FALSE
  /\ runRefused = FALSE
  /\ cleanups = 0
  /\ fatal = FALSE

\* run(): not running yet, so the flag is set and the loop entered
Run ==
  /\ pc = "idle"
  /\ ~isRunning
  /\ isRunning' = TRUE
  /\ pc' = "loop"
  /\ UNCHANGED <<recVars, bulkVars, sumRet, batchSumVars, serviceName, batchCount, queue, idx, results, stats, stopCalled, ctlVars>>
  /\ UNCHANGED auxVars

\* a loop that ends after its first batch instead of fetching again
LoopTest_OneBatch ==
  /\ pc = "loop"
  /\ IF isRunning /\ batchCount = 0
     THEN /\ batchCount' = batchCount + 1
          /\ pc' = "fetch"
     ELSE /\ pc' = "cleanup"
          /\ UNCHANGED batchCount
  /\ UNCHANGED <<recVars, bulkVars, sumRet, batchSumVars, serviceName, isRunning, queue, idx, results, stats, stopCalled, ctlVars>>
  /\ UNCHANGED auxVars

\* a loop that does not test isRunning
LoopTest_IgnoresStop ==
  /\ pc = "loop"
  /\ batchCount < MaxRuns
  /\ batchCount' = batchCount + 1
  /\ pc' = "fetch"
  /\ UNCHANGED <<recVars, bulkVars, sumRet, batchSumVars, serviceName, isRunning, queue, idx, results, stats, stopCalled, ctlVars>>
  /\ UNCHANGED auxVars

\* run(): while (this.isRunning) { batchCount++ ...
LoopTest ==
  /\ pc = "loop"
  /\ IF isRunning
     THEN /\ batchCount < MaxRuns
          /\ batchCount' = batchCount + 1
          /\ pc' = "fetch"
     ELSE /\ pc' = "cleanup"
          /\ UNCHANGED batchCount
  /\ UNCHANGED <<recVars, bulkVars, sumRet, batchSumVars, serviceName, isRunning, queue, idx, results, stats, stopCalled, ctlVars>>
  /\ UNCHANGED auxVars

\* processBatch: the pending files are fetched; none ends the loop
Fetch ==
  /\ pc = "fetch"
  /\ \E q \in GetPendingFiles(files, documents, BatchSize, "wartime_letters") :
       IF q = <<>>
       THEN /\ pc' = "cleanup"
            /\ UNCHANGED <<recVars, queue, idx, results>>
       ELSE /\ queue' = q
            /\ idx' = 1
            /\ results' = <<>>
            /\ pc' = "file"
  /\ UNCHANGED <<recVars, bulkVars, sumRet, batchSumVars, serviceName, isRunning, batchCount, stats, stopCalled, ctlVars>>
  /\ UNCHANGED auxVars

\* transcribeFile: the file is sent to the transcription service
Invoke ==
  /\ pc = "file"
  /\ pc' = "inflight"
  /\ UNCHANGED <<recVars, bulkVars, sumRet, batchSumVars, serviceName, isRunning, batchCount, queue, idx, results,
                 stats, stopCalled, ctlVars>>
  /\ UNCHANGED auxVars

\* a loop that gives up the batch at the first file that fails
AfterFile_StopsOnFailure(r) ==
  /\ results' = Append(results, r)
  /\ stats' = [totalProcessed |-> stats.totalProcessed + 1,
               totalSuccessful |-> stats.totalSuccessful + (IF r.success THEN 1 ELSE 0),
               totalFailed |-> stats.totalFailed + (IF r.success THEN 0 ELSE 1)]
  /\ IF idx < Len(queue) /\ r.success
     THEN idx' = idx + 1 /\ pc' = "file"
     ELSE idx' = idx /\ pc' = "after"

\* processBatch, the rest of the loop body once transcribeFile has returned r
AfterFile(r) ==
  /\ results' = Append(results, r)
  /\ stats' = [totalProcessed |-> stats.totalProcessed + 1,
               totalSuccessful |-> stats.totalSuccessful + (IF r.success THEN 1 ELSE 0),
               totalFailed |-> stats.totalFailed + (IF r.success THEN 0 ELSE 1)]
  /\ IF idx < Len(queue)
     THEN idx' = idx + 1 /\ pc' = "file"
     ELSE idx' = idx /\ pc' = "after"

\* a transcribeFile that returns before its update of the row is written
WriteBackSuccess_Unawaited ==
  /\ pc = "inflight"
  /\ AfterFile([fileId |-> queue[idx], success |-> TRUE, retryable |-> FALSE,
                error |-> ""])
  /\ UNCHANGED <<recVars, bulkVars, sumRet, batchSumVars,
                 serviceName, isRunning, batchCount, queue, stopCalled, ctlVars>>
  /\ UNCHANGED auxVars

\* transcribeFile: the service returns and the row is updated
WriteBackSuccess ==
  /\ pc = "inflight"
  /\ files' = TranscribeSuccess(files, serviceName, queue[idx])
  /\ AfterFile([fileId |-> queue[idx], success |-> TRUE, retryable |-> FALSE,
                error |-> ""])
  /\ UNCHANGED <<recVars, documents, batches, api, subPc, subFiles, subRows, subErr, sumRet, batchSumVars,
                 serviceName, isRunning, batchCount, queue, stopCalled, ctlVars>>
  /\ UNCHANGED auxVars

\* transcribeFile: the service throws, the error is classified and the row
\* updated
WriteBackFailure ==
  /\ pc = "inflight"
  /\ \E e \in ProviderErrors(serviceName, files, documents, queue[idx]) :
       /\ files' = TranscribeFailure(files, serviceName, queue[idx], e)
       /\ AfterFile([fileId |-> queue[idx], success |-> FALSE,
                     retryable |-> IsRetryableError(serviceName, e),
                     error |-> e.message])
  /\ UNCHANGED <<recVars, documents, batches, api, subPc, subFiles, subRows, subErr, sumRet, batchSumVars,
                 serviceName, isRunning, batchCount, queue, stopCalled, ctlVars>>
  /\ UNCHANGED auxVars

\* run(): the batch is over; statistics, the wait, and back to the loop test
AfterBatch ==
  /\ pc = "after"
  /\ pc' = "loop"
  /\ UNCHANGED <<recVars, bulkVars, sumRet, batchSumVars, serviceName, isRunning, batchCount, queue, idx, results,
                 stats, stopCalled, ctlVars>>
  /\ UNCHANGED auxVars

\* run(), finally: the flag is cleared and cleanup() closes the store
Cleanup ==
  /\ pc = "cleanup"
  /\ isRunning' = FALSE
  /\ cleanups' = cleanups + 1
  /\ pc' = "done"
  /\ UNCHANGED <<recVars, bulkVars, sumRet, batchSumVars, serviceName, batchCount, queue, idx, results, stats, stopCalled,
                 runRefused, fatal>>
  /\ UNCHANGED auxVars

\* stop()
Stop ==
  /\ pc \notin {"idle", "done"}
  /\ ~stopCalled
  /\ isRunning' = FALSE
  /\ stopCalled' = TRUE
  /\ UNCHANGED <<recVars, bulkVars, sumRet, batchSumVars, serviceName, pc, batchCount, queue, idx, results, stats,
                 runRefused, cleanups, fatal>>
  /\ UNCHANGED auxVars

\* a run() without the test of isRunning: the call enters the loop again
RunWhileRunning_Restarts ==
  /\ isRunning
  /\ ~runRefused
  /\ runRefused' = TRUE
  /\ batchCount' = 0
  /\ pc' = "loop"
  /\ UNCHANGED <<recVars, bulkVars, sumRet, batchSumVars, serviceName, isRunning,
                 queue, idx, results, stats, stopCalled, cleanups, fatal>>
  /\ UNCHANGED auxVars

\* The run followed for as long as it lasts. batchCount and stats are only
\* written to the log, so they are kept up to MaxRuns and no further.
Logged(n) == Min(n, MaxRuns)

\* run(): while (this.isRunning) { batchCount++ ...
LoopTestLogged ==
  /\ pc = "loop"
  /\ IF isRunning
     THEN /\ batchCount' = Logged(batchCount + 1)
          /\ pc' = "fetch"
     ELSE /\ pc' = "cleanup"
          /\ UNCHANGED batchCount
  /\ UNCHANGED <<recVars, bulkVars, sumRet, batchSumVars, serviceName, isRunning, queue, idx, results, stats, stopCalled, ctlVars>>
  /\ UNCHANGED auxVars

\* transcribeFile returns (the service answered or threw), the row is updated
\* and processBatch goes on
WriteBackLogged ==
  /\ pc = "inflight"
  /\ \E r \in {[fileId |-> queue[idx], success |-> TRUE, retryable |-> FALSE, error |-> ""]}
            \cup {[fileId |-> queue[idx], success |-> FALSE,
                   retryable |-> IsRetryableError(serviceName, e), error |-> e.message] :
                     e \in ProviderErrors(serviceName, files, documents, queue[idx])} :
       /\ files' = IF r.success
                   THEN TranscribeSuccess(files, serviceName, queue[idx])
                   ELSE SetStatus(files, queue[idx],
                                  IF r.retryable THEN "pending" ELSE "failed",
                                  Meta("error", serviceName, "", r.error, 0, r.retryable))
       /\ results' = Append(results, r)
       /\ stats' = [totalProcessed |-> Logged(stats.totalProcessed + 1),
                    totalSuccessful |-> Logged(stats.totalSuccessful + (IF r.success THEN 1 ELSE 0)),
                    totalFailed |-> Logged(stats.totalFailed + (IF r.success THEN 0 ELSE 1))]
       /\ IF idx < Len(queue)
          THEN idx' = idx + 1 /\ pc' = "file"
          ELSE idx' = idx /\ pc' = "after"
  /\ UNCHANGED <<recVars, documents, batches, api, subPc, subFiles, subRows, subErr, sumRet, batchSumVars,
                 serviceName, isRunning, batchCount, queue, stopCalled, ctlVars>>
  /\ UNCHANGED auxVars

\* run() called while isRunning is set: the call logs and returns
RunWhileRunning ==
  /\ isRunning
  /\ ~runRefused
  /\ runRefused' = TRUE
  /\ UNCHANGED <<recVars, bulkVars, sumRet, batchSumVars, serviceName, isRunning, pc, batchCount,
                 queue, idx, results, stats, stopCalled, cleanups, fatal>>
  /\ UNCHANGED auxVars

\* processBatch: getPendingFiles throws (the store cannot be reached); the
\* catch block returns { completed: false, processed: 0, error }
FetchThrows ==
  /\ pc = "fetch"
  /\ pc' = "after"
  /\ UNCHANGED <<recVars, bulkVars, sumRet, batchSumVars, serviceName, isRunning, batchCount,
                 queue, idx, results, stats, stopCalled, ctlVars>>
  /\ UNCHANGED auxVars

\* a run() without finally: the error ends the run and cleanup() is not called
FatalError_NoCleanup ==
  /\ pc = "after"
  /\ fatal' = TRUE
  /\ isRunning' = FALSE
  /\ pc' = "done"
  /\ UNCHANGED <<recVars, bulkVars, sumRet, batchSumVars, serviceName, batchCount,
                 queue, idx, results, stats, stopCalled, runRefused, cleanups>>
  /\ UNCHANGED auxVars

\* run(): manager.getStats() after the batch throws; the error leaves the
\* loop and reaches the catch block, and finally comes next
FatalError ==
  /\ pc = "after"
  /\ fatal' = TRUE
  /\ pc' = "cleanup"
  /\ UNCHANGED <<recVars, bulkVars, sumRet, batchSumVars, serviceName, isRunning, batchCount,
                 queue, idx, results, stats, stopCalled, runRefused, cleanups>>
  /\ UNCHANGED auxVars

\* the handler of SIGINT and SIGTERM: await this.stop(), then
\* process.exit(0); nothing that run() awaits is resumed in between
Signal ==
  /\ pc \notin {"idle", "done", "exited"}
  /\ isRunning' = FALSE
  /\ stopCalled' = TRUE
  /\ pc' = "exited"
  /\ UNCHANGED <<recVars, bulkVars, sumRet, batchSumVars, serviceName, batchCount,
                 queue, idx, results, stats, runRefused, cleanups, fatal>>
  /\ UNCHANGED auxVars

\* ------------------------------------------------------ document summarizer
SummaryText(n) == [src |-> "summary", job |-> n]

\* the summaries the model lets the service produce: two different texts and
\* the empty string (output_text.trim() of a blank answer)
SummaryTexts == {SummaryText(1), SummaryText(2), EmptyText}

NoSummaryCall ==
  [documentId |-> 0, success |-> FALSE, alreadyExists |-> FALSE,
   summary |-> NullText, invoked |-> FALSE, input |-> <<>>]

\* getDocumentWithTranscriptions: the rows of the document that are completed
\* and have a transcription
TranscribedFiles(fs, d) ==
  {id \in DOMAIN fs : /\ fs[id].document_id = d
                      /\ fs[id].transcription_status = "completed"
                      /\ fs[id].transcription # NullText}

SummaryMeta == Meta("ok", "openai", "gpt-5-mini", "", 0, FALSE)

\* the rows S in the order of the table, which is by id
RECURSIVE ById(_)
ById(S) ==
  IF S = {} THEN <<>>
  ELSE LET m == CHOOSE x \in S : \A y \in S : x <= y
       IN <<m>> \o ById(S \ {m})

\* .orderBy('part_number')
RECURSIVE ByPartNumber(_, _)
ByPartNumber(fs, S) ==
  IF S = {} THEN <<>>
  ELSE LET m == CHOOSE x \in S : \A y \in S :
                  \/ fs[x].part_number < fs[y].part_number
                  \/ fs[x].part_number = fs[y].part_number /\ x <= y
       IN <<m>> \o ByPartNumber(fs, S \ {m})

\* '\n\n--- PAGE BREAK ---\n\n'
PageBreak == [src |-> "page break", job |-> 0]

\* Array.prototype.join with the page break as separator: the texts of the
\* rows in ids with one separator between two neighbours
RECURSIVE JoinPages(_, _)
JoinPages(fs, ids) ==
  IF ids = <<>> THEN <<>>
  ELSE IF Len(ids) = 1 THEN <<fs[Head(ids)].transcription>>
  ELSE <<fs[Head(ids)].transcription, PageBreak>> \o JoinPages(fs, Tail(ids))

\* a getDocumentWithTranscriptions that joins every row of the document in
\* the order of the table
CombinedTranscription_EveryRow(fs, d) ==
  JoinPages(fs, ById({id \in DOMAIN fs : fs[id].document_id = d}))

\* getDocumentWithTranscriptions, combinedTranscription: the transcriptions
\* of the selected rows by part_number, joined with the page break
CombinedTranscription(fs, d) ==
  JoinPages(fs, ByPartNumber(fs, TranscribedFiles(fs, d)))

\* generateSummary(d) when no completed transcription is found
\* (getDocumentWithTranscriptions throws, the catch returns the failure)
GenerateSummaryNoText(d) ==
  /\ TranscribedFiles(files, d) = {}
  /\ sumRet' = [NoSummaryCall EXCEPT !.documentId = d]
  /\ UNCHANGED <<recVars, bulkVars, runnerVars, batchSumVars>>
  /\ UNCHANGED auxVars

\* generateSummary(d) when the document has a summary: it is returned
GenerateSummaryExists(d) ==
  /\ TranscribedFiles(files, d) # {}
  /\ Truthy(documents[d].summary)
  /\ sumRet' = [documentId |-> d, success |-> TRUE, alreadyExists |-> TRUE,
                summary |-> documents[d].summary, invoked |-> FALSE, input |-> <<>>]
  /\ UNCHANGED <<recVars, bulkVars, runnerVars, batchSumVars>>
  /\ UNCHANGED auxVars

\* generateSummary(d): the service is called and its summary saved
GenerateSummarySaved(d) ==
  /\ TranscribedFiles(files, d) # {}
  /\ ~Truthy(documents[d].summary)
  /\ \E text \in SummaryTexts :
       /\ documents' = [documents EXCEPT ![d].summary = text,
                                         ![d].summary_metadata = SummaryMeta]
       /\ sumRet' = [documentId |-> d, success |-> TRUE, alreadyExists |-> FALSE,
                     summary |-> text, invoked |-> TRUE,
                     input |-> CombinedTranscription(files, d)]
  /\ UNCHANGED <<recVars, files, batches, api, subPc, subFiles, subRows, subErr, runnerVars,
                 batchSumVars>>
  /\ UNCHANGED auxVars

\* generateSummary(d): the call to the service throws, nothing is saved
GenerateSummaryFails(d) ==
  /\ TranscribedFiles(files, d) # {}
  /\ ~Truthy(documents[d].summary)
  /\ sumRet' = [documentId |-> d, success |-> FALSE, alreadyExists |-> FALSE,
                summary |-> NullText, invoked |-> TRUE,
                input |-> CombinedTranscription(files, d)]
  /\ UNCHANGED <<recVars, bulkVars, runnerVars, batchSumVars>>
  /\ UNCHANGED auxVars

\* generateSummary(documentId)
GenerateSummary(d) ==
  \/ GenerateSummaryNoText(d)
  \/ GenerateSummaryExists(d)
  \/ GenerateSummarySaved(d)
  \/ GenerateSummaryFails(d)

\* ------------------------------------------- batch of summaries (CLI)
NoCount == [processed |-> 0, successful |-> 0, failed |-> 0, skipped |-> 0]

BatchSummariesIdle ==
  /\ sumPc = "idle"
  /\ sumQueue = <<>>
  /\ sumForce = FALSE
  /\ sumCount = NoCount

\* the documents with the date code in S, by ascending date
RECURSIVE ByDate(_, _)
ByDate(docs, S) ==
  IF S = {} THEN <<>>
  ELSE LET m == CHOOSE x \in S : \A y \in S : docs[x].date <= docs[y].date
       IN <<m>> \o ByDate(docs, S \ {m})

\* getDocumentsReadyForSummary(limit, force): documents with a completed
\* file and, unless force, with summary null; by date, at most limit
GetDocumentsReadyForSummary(docs, fs, limit, force) ==
  LET ready == {d \in DOMAIN docs :
                  /\ \E id \in DOMAIN fs : /\ fs[id].document_id = d
                                           /\ fs[id].transcription_status = "completed"
                  /\ (force \/ docs[d].summary = NullText)}
      q == ByDate(docs, ready)
  IN SubSeq(q, 1, Min(limit, Len(q)))

\* what generateSummary(d) can do in the store docs, fs: the documents it
\* leaves and the result it returns
SummaryOutcomes(docs, fs, d) ==
  IF TranscribedFiles(fs, d) = {}
  THEN {[documents |-> docs, ret |-> [NoSummaryCall EXCEPT !.documentId = d]]}
  ELSE IF Truthy(docs[d].summary)
  THEN {[documents |-> docs,
         ret |-> [documentId |-> d, success |-> TRUE, alreadyExists |-> TRUE,
                  summary |-> docs[d].summary, invoked |-> FALSE, input |-> <<>>]]}
  ELSE {[documents |-> [docs EXCEPT ![d].summary = text,
                                    ![d].summary_metadata = SummaryMeta],
         ret |-> [documentId |-> d, success |-> TRUE, alreadyExists |-> FALSE,
                  summary |-> text, invoked |-> TRUE,
                  input |-> CombinedTranscription(fs, d)]] : text \in SummaryTexts}
       \cup {[documents |-> docs,
              ret |-> [documentId |-> d, success |-> FALSE, alreadyExists |-> FALSE,
                       summary |-> NullText, invoked |-> TRUE,
                       input |-> CombinedTranscription(fs, d)]]}

\* main, case 'batch': the documents are listed and generateBatchSummaries
\* begins
BatchSummariesBegin ==
  /\ sumPc = "idle"
  /\ \E force \in BOOLEAN, limit \in 1..NumDocs :
       LET ids == GetDocumentsReadyForSummary(documents, files, limit, force) IN
       /\ ids # <<>>
       /\ sumQueue' = ids
       /\ sumForce' = force
  /\ sumPc' = "batch"
  /\ sumCount' = NoCount
  /\ UNCHANGED <<recVars, bulkVars, runnerVars, sumRet>>
  /\ UNCHANGED auxVars

\* generateBatchSummaries, loop body: force is not set and the document has
\* a summary, so it is skipped
BatchSummariesSkip ==
  /\ sumPc = "batch"
  /\ sumQueue # <<>>
  /\ ~sumForce
  /\ Truthy(documents[Head(sumQueue)].summary)
  /\ sumCount' = [sumCount EXCEPT !.skipped = @ + 1, !.processed = @ + 1]
  /\ sumQueue' = Tail(sumQueue)
  /\ UNCHANGED <<recVars, bulkVars, runnerVars, sumRet, sumPc, sumForce>>
  /\ UNCHANGED auxVars

\* generateBatchSummaries, loop body: generateSummary is called
BatchSummariesGenerate ==
  /\ sumPc = "batch"
  /\ sumQueue # <<>>
  /\ sumForce \/ ~Truthy(documents[Head(sumQueue)].summary)
  /\ \E o \in SummaryOutcomes(documents, files, Head(sumQueue)) :
       /\ documents' = o.documents
       /\ sumRet' = o.ret
       /\ sumCount' = [sumCount EXCEPT
                         !.processed = @ + 1,
                         !.successful = @ + (IF o.ret.success THEN 1 ELSE 0),
                         !.failed = @ + (IF o.ret.success THEN 0 ELSE 1)]
  /\ sumQueue' = Tail(sumQueue)
  /\ UNCHANGED <<recVars, files, batches, api, subPc, subFiles, subRows, subErr, runnerVars,
                 sumPc, sumForce>>
  /\ UNCHANGED auxVars

\* generateBatchSummaries returns its counts and the command ends
BatchSummariesEnd ==
  /\ sumPc = "batch"
  /\ sumQueue = <<>>
  /\ sumPc' = "idle"
  /\ UNCHANGED <<recVars, bulkVars, runnerVars, sumRet, sumQueue, sumForce, sumCount>>
  /\ UNCHANGED auxVars

\* ------------------------------------------------------------------ ingest
MaxId(fs) == IF DOMAIN fs = {} THEN 0 ELSE CHOOSE m \in DOMAIN fs : \A x \in DOMAIN fs : x <= m

\* the place of row id among the rows, counted document by document
ScanRank(fs, id) ==
  Cardinality({x \in DOMAIN fs : \/ fs[x].document_id < fs[id].document_id
                                 \/ fs[x].document_id = fs[id].document_id /\ x <= id})

\* scanAndPopulateDocuments over the same source files: for every document
\* its rows of document_files are deleted and inserted again, so they get
\* new ids, the default status pending and no transcription
ScannedFiles(fs) ==
  LET base == MaxId(fs)
      old(n) == CHOOSE id \in DOMAIN fs : base + ScanRank(fs, id) = n
  IN [n \in (base + 1)..(base + Cardinality(DOMAIN fs)) |->
        [document_id |-> fs[old(n)].document_id,
         part_number |-> fs[old(n)].part_number,
         transcription |-> NullText, transcription_status |-> "pending",
         transcription_metadata |-> NullMeta]]

ScanAndPopulateDocuments ==
  /\ MaxId(files) < (MaxScans + 1) * Cardinality(DOMAIN files)
  /\ files' = ScannedFiles(files)
  /\ UNCHANGED <<documents, batches, api, subPc, subFiles, subRows, subErr, otherVars>>
  /\ UNCHANGED auxVars

\* ------------------------------------------------------------- the store
\* the rows scanAndPopulateDocuments inserts: file f is part LayoutPart(f) of
\* document LayoutDoc(f)
LayoutDoc(f) == ((f - 1) % NumDocs) + 1
LayoutPart(f) == ((f - 1) \div NumDocs) + 1

NewFile(f) ==
  [document_id |-> LayoutDoc(f), part_number |-> LayoutPart(f),
   transcription |-> NullText, transcription_status |-> "pending",
   transcription_metadata |-> NullMeta]

NewDocument(d, type) ==
  [date |-> DateCodes[d], type |-> type, summary |-> NullText,
   summary_metadata |-> NullMeta, transcription_status |-> "pending"]

\* ------------------------------------------------------------ the listing
\* routes/protected.js, GET /documents: documents left-joined with their
\* files and grouped by document

ListedStatuses == {"completed", "partial", "pending"}

\* COUNT(df.id) as file_count
FileCount(fs, d) == Cardinality({f \in DOMAIN fs : fs[f].document_id = d})

\* SUM(CASE WHEN df.transcription_status = "completed" ...) as completed_count
CompletedCount(fs, d) ==
  Cardinality({f \in DOMAIN fs : fs[f].document_id = d
                                 /\ fs[f].transcription_status = "completed"})

\* a listing that knows no partial documents
ListedStatus_NoPartial(fs, d) ==
  IF CompletedCount(fs, d) > 0 THEN "completed" ELSE "pending"

\* the transcription_status the listing adds to the row of document d
ListedStatus(fs, d) ==
  IF CompletedCount(fs, d) > 0
  THEN IF CompletedCount(fs, d) = FileCount(fs, d) THEN "completed" ELSE "partial"
  ELSE "pending"

\* the documents the HAVING clause of the status filter keeps; any other
\* value of status adds no clause
StatusFilter(fs, ds, status) ==
  CASE status = "completed" ->
         {d \in DOMAIN ds : CompletedCount(fs, d) = FileCount(fs, d) /\ FileCount(fs, d) > 0}
    [] status = "partial" ->
         {d \in DOMAIN ds : CompletedCount(fs, d) > 0
                            /\ CompletedCount(fs, d) < FileCount(fs, d)}
    [] status = "pending" ->
         {d \in DOMAIN ds : CompletedCount(fs, d) = 0}
    [] OTHER -> DOMAIN ds

\* ------------------------------------------------ the generic batch engine
\* src/batch-utils.js: BatchJobDB keeps the table batch_jobs and
\* BatchProcessor drives the external batch service for any caller

MaxJobs == 2

\* the number of requests of one job (test-batch.js)
JobRequests == 3

\* getPendingJobs: the statuses of a job the service has not ended
PendingStatuses == {"validating", "in_progress", "finalizing"}

\* the statuses the external service has had when it reports status st
StatusesUpTo(st) ==
  CASE st = "validating" -> {"validating"}
    [] st = "failed" -> {"validating", "failed"}
    [] st = "in_progress" -> {"validating", "in_progress"}
    [] st = "expired" -> {"validating", "in_progress", "expired"}
    [] st = "finalizing" -> {"validating", "in_progress", "finalizing"}
    [] st = "completed" -> {"validating", "in_progress", "finalizing", "completed"}

\* batches.create: the job as the service answers it
NewJob ==
  [status |-> "validating", completed |-> 0, failed |-> 0,
   output_file_id |-> 0, error_file_id |-> 0, content |-> "none"]

\* createBatchJob: the row of a job the service answered as job
JobRow(job) ==
  [status |-> job.status, request_count_completed |-> 0, request_count_failed |-> 0,
   output_file_id |-> 0, error_file_id |-> 0, processed_at |-> NULL]

\* the caller submits a job and stores its row; a call that throws stores
\* no row, and its job is none of the jobs that are followed
CreateBatchJob ==
  /\ Len(batch_jobs) < MaxJobs
  /\ jobApi' = Append(jobApi, NewJob)
  /\ batch_jobs' = Append(batch_jobs, JobRow(NewJob))
  /\ UNCHANGED <<bulkVars, otherVars, peerVars, bsVars, idleVars>>

\* the service moves job j on; a finished job has f failed requests and an
\* output file whose lines are JSON ("lines") or are not ("nojson")
JobAdvance(j) ==
  /\ j \in DOMAIN jobApi
  /\ \/ /\ jobApi[j].status = "validating"
        /\ \E st \in {"in_progress", "failed"} :
             jobApi' = [jobApi EXCEPT ![j].status = st]
     \/ /\ jobApi[j].status = "in_progress"
        /\ \E st \in {"finalizing", "expired"} :
             jobApi' = [jobApi EXCEPT ![j].status = st]
     \/ /\ jobApi[j].status = "finalizing"
        /\ \E f \in 0..JobRequests, c \in {"lines", "nojson"} :
             jobApi' = [jobApi EXCEPT ![j] =
                          [status |-> "completed",
                           completed |-> JobRequests - f,
                           failed |-> f,
                           output_file_id |-> IF f < JobRequests THEN j ELSE 0,
                           error_file_id |-> IF f > 0 THEN j ELSE 0,
                           content |-> IF f < JobRequests THEN c ELSE "none"]]
  /\ UNCHANGED <<bulkVars, otherVars, peerVars, bsVars, idleVars, batch_jobs>>

\* checkBatchStatuses: the update written for a job the service reports as job
JobMirror(row, job) ==
  IF job.status = "completed"
  THEN [row EXCEPT !.status = job.status,
                   !.request_count_completed = job.completed,
                   !.request_count_failed = job.failed,
                   !.output_file_id = job.output_file_id,
                   !.error_file_id = job.error_file_id]
  ELSE [row EXCEPT !.status = job.status,
                   !.request_count_completed = job.completed,
                   !.request_count_failed = job.failed]

NoIds == {0}

\* checkBatchStatuses(batchIds): the jobs named, by default the pending ones;
\* a job whose retrieve throws is logged and left as it is
CheckBatchStatuses ==
  /\ \E batchIds \in {NoIds} \cup SUBSET DOMAIN batch_jobs :
       LET asked == IF batchIds = NoIds
                    THEN {j \in DOMAIN batch_jobs : batch_jobs[j].status \in PendingStatuses}
                    ELSE batchIds
       IN \E answered \in SUBSET asked :
            batch_jobs' = [j \in DOMAIN batch_jobs |->
                       IF j \in answered THEN JobMirror(batch_jobs[j], jobApi[j]) ELSE batch_jobs[j]]
  /\ UNCHANGED <<bulkVars, otherVars, peerVars, bsVars, idleVars, jobApi>>

\* getCompletedUnprocessedJobs, and the jobs among them that have an output file
CompletedUnprocessedJobs ==
  {j \in DOMAIN batch_jobs : batch_jobs[j].status = "completed" /\ batch_jobs[j].processed_at = NULL}

\* processCompletedBatches: a job without output file is passed over; a job
\* whose download, JSON.parse or resultProcessor throws is handed to
\* markAsProcessingFailed; every other job is marked processed
ProcessCompletedBatches ==
  /\ LET tried == {j \in CompletedUnprocessedJobs : batch_jobs[j].output_file_id # 0} IN
     \E thrown \in SUBSET tried :
       /\ \A j \in tried : jobApi[j].content = "nojson" => j \in thrown
       /\ batch_jobs' = [j \in DOMAIN batch_jobs |->
                     IF j \in thrown THEN [batch_jobs[j] EXCEPT !.status = "processing_failed"]
                     ELSE IF j \in tried THEN [batch_jobs[j] EXCEPT !.processed_at = SET]
                     ELSE batch_jobs[j]]
  /\ UNCHANGED <<bulkVars, otherVars, peerVars, bsVars, idleVars, jobApi>>

\* ------------------------------------------------- background summarizer
\* api-server.js, class BackgroundSummarizer; its stats and batchCount are
\* written to the log only and are left out

\* this.batchSize
SummarizerBatchSize == 10

\* run(): isRunning is set; getInitialStats catches its own errors
SummarizerRun ==
  /\ bsPc = "idle"
  /\ ~bsRunning
  /\ bsRunning' = TRUE
  /\ bsPc' = "loop"
  /\ UNCHANGED <<bulkVars, otherVars, peerVars, jobVars, idleVars, bsQueue, bsCleanups>>

\* run(), top of the loop, and processBatch up to the fetch: with no
\* document ready the result is completed and the loop is left
SummarizerFetch ==
  /\ bsPc = "loop"
  /\ bsRunning
  /\ LET docs == GetDocumentsReadyForSummary(documents, files, SummarizerBatchSize, FALSE) IN
       /\ bsQueue' = docs
       /\ bsPc' = IF docs = <<>> THEN "finally" ELSE "batch"
  /\ UNCHANGED <<bulkVars, otherVars, peerVars, jobVars, idleVars, bsRunning, bsCleanups>>

\* processBatch, loop body: generateSummary for the next document; a
\* failure is counted and logged
SummarizerGenerate ==
  /\ bsPc = "batch"
  /\ bsQueue # <<>>
  /\ \E o \in SummaryOutcomes(documents, files, Head(bsQueue)) :
       /\ documents' = o.documents
       /\ sumRet' = o.ret
  /\ bsQueue' = Tail(bsQueue)
  /\ UNCHANGED <<files, batches, api, subPc, subFiles, subRows, subErr, runnerVars,
                 batchSumVars, recVars, jobVars, idleVars, peerVars, bsRunning, bsPc,
                 bsCleanups>>

\* processBatch returns completed: false; run() logs the statistics, waits
\* and tests the loop again
SummarizerAfterBatch ==
  /\ bsPc = "batch"
  /\ bsQueue = <<>>
  /\ bsPc' = "loop"
  /\ UNCHANGED <<bulkVars, otherVars, peerVars, jobVars, idleVars, bsRunning, bsQueue, bsCleanups>>

\* run(), finally: isRunning is cleared and cleanup() runs
SummarizerCleanup ==
  /\ bsPc = "finally"
  /\ bsRunning' = FALSE
  /\ bsCleanups' = bsCleanups + 1
  /\ bsPc' = "done"
  /\ UNCHANGED <<bulkVars, otherVars, peerVars, jobVars, idleVars, bsQueue>>

\* --------------------------------------------------------- idle watchdog
\* api-server.js: time is counted in periods of the watchdog (one minute)

IdleTimeout == 2    \* IDLE_TIMEOUT_MS, in periods
MaxClock == 5       \* periods the clock runs
MaxRequests == 2    \* requests counted in flight at the same time

\* a period of the watchdog passes
Tick ==
  /\ ~exited
  /\ now < MaxClock
  /\ now' = now + 1
  /\ UNCHANGED <<bulkVars, otherVars, peerVars, jobVars, bsVars, lastRequest, inFlight, active, exited>>

\* the tracking middleware, first in the chain, sees a request
TrackRequest ==
  /\ ~exited
  /\ inFlight < MaxRequests
  /\ lastRequest' = now
  /\ inFlight' = inFlight + 1
  /\ active' = active + 1
  /\ UNCHANGED <<bulkVars, otherVars, peerVars, jobVars, bsVars, now, exited>>

\* res emits finish: the response has been handed over
ResponseFinish ==
  /\ ~exited
  /\ active > 0
  /\ inFlight' = inFlight - 1
  /\ active' = active - 1
  /\ UNCHANGED <<bulkVars, otherVars, peerVars, jobVars, bsVars, lastRequest, now, exited>>

\* the connection is lost before the response ends: res emits close only,
\* which nothing listens to
ConnectionLost ==
  /\ ~exited
  /\ active > 0
  /\ active' = active - 1
  /\ UNCHANGED <<bulkVars, otherVars, peerVars, jobVars, bsVars, lastRequest, inFlight, now, exited>>

\* a watchdog that looks at the idle time only
Watchdog_IgnoresInFlight ==
  /\ ~exited
  /\ now - lastRequest > IdleTimeout
  /\ exited' = TRUE
  /\ UNCHANGED <<bulkVars, otherVars, peerVars, jobVars, bsVars, lastRequest, inFlight, now, active>>

\* the interval callback: the process exits when nothing is in flight and
\* the last request is older than the timeout; otherwise it does nothing
Watchdog ==
  /\ ~exited
  /\ inFlight = 0
  /\ now - lastRequest > IdleTimeout
  /\ exited' = TRUE
  /\ UNCHANGED <<bulkVars, otherVars, peerVars, jobVars, bsVars, lastRequest, inFlight, now, active>>

\* no job of the generic engine has been submitted, the background
\* summarizer has been constructed, the API server has just started
\* ------------------------------------------ transcribers side by side
\* background-transcriber.js started more than once: every process has its
\* own BackgroundTranscriber and all of them share the store

Transcribers == {1, 2}

\* what transcribeFile returned, as lastEnd keeps it
EndOf(service, error) == IF IsRetryableError(service, error) THEN "retryable" ELSE "permanent"

\* what the service throws to these processes: of the errors of the vendor,
\* one that is classified retryable and one that is not
PeerErrors(id) ==
  {e \in ProviderErrors(serviceName, files, documents, id) :
     e.cause \in {"rate_limit", "invalid_input"}}

\* run() of process r: isRunning is set and the loop entered
TranscriberRun(r) ==
  /\ tPc[r] = "idle"
  /\ tPc' = [tPc EXCEPT ![r] = "fetch"]
  /\ UNCHANGED <<bulkVars, otherVars, jobVars, bsVars, idleVars,
                 tBatchCount, tQueue, tIdx, sent, lastEnd>>

\* processBatch of process r: the pending files are fetched; none ends the
\* loop
TranscriberFetch(r) ==
  /\ tPc[r] = "fetch"
  /\ tBatchCount[r] < MaxRuns
  /\ tBatchCount' = [tBatchCount EXCEPT ![r] = @ + 1]
  /\ \E q \in GetPendingFiles(files, documents, BatchSize, "wartime_letters") :
       IF q = <<>>
       THEN /\ tPc' = [tPc EXCEPT ![r] = "done"]
            /\ UNCHANGED <<tQueue, tIdx>>
       ELSE /\ tQueue' = [tQueue EXCEPT ![r] = q]
            /\ tIdx' = [tIdx EXCEPT ![r] = 1]
            /\ tPc' = [tPc EXCEPT ![r] = "file"]
  /\ UNCHANGED <<bulkVars, otherVars, jobVars, bsVars, idleVars, sent, lastEnd>>

\* transcribeFile of process r: the file is sent to the transcription
\* service
TranscriberInvoke(r) ==
  /\ tPc[r] = "file"
  /\ tPc' = [tPc EXCEPT ![r] = "inflight"]
  /\ sent' = [sent EXCEPT ![r] = @ \cup {tQueue[r][tIdx[r]]}]
  /\ UNCHANGED <<bulkVars, otherVars, jobVars, bsVars, idleVars,
                 tBatchCount, tQueue, tIdx, lastEnd>>

\* processBatch of process r, the rest of the loop body: the next file, or
\* back to the loop of run() after the last one
TranscriberAfterFile(r) ==
  IF tIdx[r] < Len(tQueue[r])
  THEN /\ tIdx' = [tIdx EXCEPT ![r] = @ + 1]
       /\ tPc' = [tPc EXCEPT ![r] = "file"]
  ELSE /\ tIdx' = tIdx
       /\ tPc' = [tPc EXCEPT ![r] = "fetch"]

\* a transcribeFile that returns success and leaves the row as it found it
TranscriberSuccess_RowKept(r) ==
  /\ tPc[r] = "inflight"
  /\ lastEnd' = [lastEnd EXCEPT ![tQueue[r][tIdx[r]]] = "success"]
  /\ TranscriberAfterFile(r)
  /\ UNCHANGED <<bulkVars, otherVars, jobVars, bsVars, idleVars,
                 tBatchCount, tQueue, sent>>

\* transcribeFile of process r: the service returns and the row is updated
TranscriberSuccess(r) ==
  /\ tPc[r] = "inflight"
  /\ files' = TranscribeSuccess(files, serviceName, tQueue[r][tIdx[r]])
  /\ lastEnd' = [lastEnd EXCEPT ![tQueue[r][tIdx[r]]] = "success"]
  /\ TranscriberAfterFile(r)
  /\ UNCHANGED <<documents, batches, api, subPc, subFiles, subRows, subErr, otherVars,
                 jobVars, bsVars, idleVars, tBatchCount, tQueue, sent>>

\* transcribeFile of process r: the service throws, the error is classified
\* and the row updated
TranscriberFailure(r) ==
  /\ tPc[r] = "inflight"
  /\ \E e \in PeerErrors(tQueue[r][tIdx[r]]) :
       /\ files' = TranscribeFailure(files, serviceName, tQueue[r][tIdx[r]], e)
       /\ lastEnd' = [lastEnd EXCEPT ![tQueue[r][tIdx[r]]] = EndOf(serviceName, e)]
  /\ TranscriberAfterFile(r)
  /\ UNCHANGED <<documents, batches, api, subPc, subFiles, subRows, subErr, otherVars,
                 jobVars, bsVars, idleVars, tBatchCount, tQueue, sent>>

\* no process has been started
TranscribersIdle ==
  /\ tPc = [r \in Transcribers |-> "idle"]
  /\ tBatchCount = [r \in Transcribers |-> 0]
  /\ tQueue = [r \in Transcribers |-> <<>>]
  /\ tIdx = [r \in Transcribers |-> 0]
  /\ sent = [r \in Transcribers |-> {}]
  /\ lastEnd = [f \in FileIds |-> "none"]

InitAux ==
  /\ batch_jobs = <<>>
  /\ jobApi = <<>>
  /\ bsRunning = FALSE
  /\ bsPc = "idle"
  /\ bsQueue = <<>>
  /\ bsCleanups = 0
  /\ lastRequest = 0
  /\ inFlight = 0
  /\ now = 0
  /\ active = 0
  /\ exited = FALSE
  /\ TranscribersIdle

\* the store after the scan, no bulk job submitted
InitBulk ==
  /\ documents = [d \in DocIds |-> NewDocument(d, "wartime_letters")]
  /\ files = [f \in FileIds |-> NewFile(f)]
  /\ batches = <<>>
  /\ api = <<>>
  /\ subPc = "idle"
  /\ subFiles = <<>>
  /\ subRows = 0
  /\ subErr = "none"
  /\ RunnerConstructed
  /\ serviceName = "openai"
  /\ sumRet = NoSummaryCall
  /\ BatchSummariesIdle
  /\ ReconcilerIdle
  /\ InitAux

NextBulk ==
  \/ SubmitBegin
  \/ SubmitUpload
  \/ SubmitCreateJob
  \/ SubmitInsertRow
  \/ SubmitMarkFiles
  \/ SubmitThrow
  \/ CheckTranscriptionBatches
  \/ ProcessTranscriptionResults
  \/ ProcessTranscriptionResultsThrows
  \/ CleanupFailedBatches
  \/ \E b \in 1..MaxBatches : ApiStart(b)
  \/ \E b \in 1..MaxBatches : ApiReject(b)
  \/ \E b \in 1..MaxBatches : ApiComplete(b)
  \/ \E b \in 1..MaxBatches : ApiExpire(b)

SpecBulk == InitBulk /\ [][NextBulk]_vars

\* a job ends after the service has reported progress: the final counts
\* take up the requests already counted
ApiEnd(b) ==
  /\ ApiComplete(b) \/ ApiExpire(b)
  /\ api'[b].completed >= api[b].completed
  /\ api'[b].completed + api'[b].failed <= Len(api[b].file_ids)

\* the bulk path beside a service that reports its progress
NextTrack ==
  \/ SubmitBegin
  \/ SubmitUpload
  \/ SubmitCreateJob
  \/ SubmitInsertRow
  \/ SubmitMarkFiles
  \/ SubmitThrow
  \/ CheckTranscriptionBatches
  \/ ProcessTranscriptionResults
  \/ CleanupFailedBatches
  \/ \E b \in 1..MaxBatches : ApiStart(b)
  \/ \E b \in 1..MaxBatches : ApiWork(b)
  \/ \E b \in 1..MaxBatches : ApiReject(b)
  \/ \E b \in 1..MaxBatches : ApiEnd(b)

SpecTrack == InitBulk /\ [][NextTrack]_vars

\* the generic engine: jobs are submitted, the service moves them on, and
\* the caller checks and processes them
NextJobs ==
  \/ CreateBatchJob
  \/ \E j \in 1..MaxJobs : JobAdvance(j)
  \/ CheckBatchStatuses
  \/ ProcessCompletedBatches

SpecJobs == InitBulk /\ [][NextJobs]_vars

\* the API server: requests come and go, time passes, the watchdog looks
NextIdle ==
  \/ Tick
  \/ TrackRequest
  \/ ResponseFinish
  \/ ConnectionLost
  \/ Watchdog

SpecIdle == InitBulk /\ [][NextIdle]_vars

\* The bulk path when every command is run again and again: a call that is
\* enabled is made in the end (check-batches, process-results and
\* cleanup-failed are commands an operator or a timer repeats), a call of
\* createTranscriptionBatch that began goes on to its end, and the service
\* brings every job to a terminal status
ApiProgress ==
  \E b \in 1..MaxBatches : ApiStart(b) \/ ApiReject(b) \/ ApiComplete(b) \/ ApiExpire(b)

SubmitProgress ==
  SubmitUpload \/ SubmitCreateJob \/ SubmitInsertRow \/ SubmitMarkFiles

SpecBulkLive ==
  /\ InitBulk
  /\ [][NextBulk]_vars
  /\ WF_vars(CheckTranscriptionBatches)
  /\ WF_vars(ProcessTranscriptionResults)
  /\ WF_vars(CleanupFailedBatches)
  /\ WF_vars(ApiProgress)
  /\ WF_vars(SubmitProgress)

\* a file transcribed by an earlier run
DoneFile(f, service) ==
  [NewFile(f) EXCEPT !.transcription = SyncText,
                     !.transcription_status = "completed",
                     !.transcription_metadata =
                        Meta("ok", service, ServiceModel(service), "", 0, FALSE)]

\* the store some time after the scan: documents of either type, some files
\* already transcribed, the others pending; a runner constructed for either
\* service
InitRunner ==
  /\ serviceName \in {"openai", "gemini"}
  /\ \E types \in [DocIds -> DocTypes] :
       documents = [d \in DocIds |-> NewDocument(d, types[d])]
  /\ \E done \in SUBSET (1..RunnerFiles) :
       files = [f \in 1..RunnerFiles |->
                  IF f \in done THEN DoneFile(f, serviceName) ELSE NewFile(f)]
  /\ batches = <<>>
  /\ api = <<>>
  /\ subPc = "idle"
  /\ subFiles = <<>>
  /\ subRows = 0
  /\ subErr = "none"
  /\ RunnerConstructed
  /\ sumRet = NoSummaryCall
  /\ BatchSummariesIdle
  /\ ReconcilerIdle
  /\ InitAux

NextRunner ==
  \/ Run
  \/ LoopTest
  \/ Fetch
  \/ Invoke
  \/ WriteBackSuccess
  \/ WriteBackFailure
  \/ AfterBatch
  \/ Cleanup
  \/ Stop

SpecRunner == InitRunner /\ [][NextRunner]_vars

\* the runner as an object whose run() and stop() are called: constructed
\* for openai, every file a pending letter
InitControl ==
  /\ serviceName = "openai"
  /\ documents = [d \in DocIds |-> NewDocument(d, "wartime_letters")]
  /\ files = [f \in FileIds |-> NewFile(f)]
  /\ batches = <<>>
  /\ api = <<>>
  /\ subPc = "idle"
  /\ subFiles = <<>>
  /\ subRows = 0
  /\ subErr = "none"
  /\ RunnerConstructed
  /\ sumRet = NoSummaryCall
  /\ BatchSummariesIdle
  /\ ReconcilerIdle
  /\ InitAux

NextControl ==
  \/ Run
  \/ RunWhileRunning
  \/ LoopTest
  \/ Fetch
  \/ FetchThrows
  \/ Invoke
  \/ WriteBackSuccess
  \/ WriteBackFailure
  \/ AfterBatch
  \/ FatalError
  \/ Cleanup
  \/ Stop

SpecControl == InitControl /\ [][NextControl]_vars

\* the runner as the process that main starts: run() is called once, and a
\* signal can arrive at any moment of the run
NextProcess ==
  \/ Run
  \/ LoopTest
  \/ Fetch
  \/ FetchThrows
  \/ Invoke
  \/ WriteBackSuccess
  \/ WriteBackFailure
  \/ AfterBatch
  \/ FatalError
  \/ Cleanup
  \/ Signal

SpecProcess == InitControl /\ [][NextProcess]_vars

\* the run that nobody stops: every call that run() awaits returns, so the
\* step that comes next is taken in the end
NextRunLive ==
  \/ Run
  \/ LoopTestLogged
  \/ Fetch
  \/ Invoke
  \/ WriteBackLogged
  \/ AfterBatch
  \/ Cleanup

SpecRunLive == InitControl /\ [][NextRunLive]_vars /\ WF_vars(NextRunLive)

\* the store some time after the scan, no summary generated yet
InitSumm ==
  /\ serviceName = "openai"
  /\ documents = [d \in DocIds |-> NewDocument(d, "wartime_letters")]
  /\ \E done \in SUBSET (1..RunnerFiles) :
       files = [f \in 1..RunnerFiles |->
                  IF f \in done THEN DoneFile(f, serviceName) ELSE NewFile(f)]
  /\ batches = <<>>
  /\ api = <<>>
  /\ subPc = "idle"
  /\ subFiles = <<>>
  /\ subRows = 0
  /\ subErr = "none"
  /\ RunnerConstructed
  /\ sumRet = NoSummaryCall
  /\ BatchSummariesIdle
  /\ ReconcilerIdle
  /\ InitAux

NextSumm ==
  \/ \E d \in DocIds : GenerateSummaryNoText(d)
  \/ \E d \in DocIds : GenerateSummaryExists(d)
  \/ \E d \in DocIds : GenerateSummarySaved(d)
  \/ \E d \in DocIds : GenerateSummaryFails(d)
  \/ BatchSummariesBegin
  \/ BatchSummariesSkip
  \/ BatchSummariesGenerate
  \/ BatchSummariesEnd
  \/ ScanAndPopulateDocuments

SpecSumm == InitSumm /\ [][NextSumm]_vars

\* node background-summarizer.js on its own, never stopped: every step of
\* run() that can be taken is taken in the end, and every call of the
\* summary service returns
NextSummLive ==
  \/ SummarizerRun
  \/ SummarizerFetch
  \/ SummarizerGenerate
  \/ SummarizerAfterBatch
  \/ SummarizerCleanup

SpecSummLive == InitSumm /\ [][NextSummLive]_vars /\ WF_vars(NextSummLive)

\* the store the listing reads, some time after the scan: every file in
\* any of the four statuses, the completed ones with their transcription
InitListing ==
  /\ serviceName = "openai"
  /\ documents = [d \in DocIds |-> NewDocument(d, "wartime_letters")]
  /\ \E st \in [1..RunnerFiles -> Statuses] :
       files = [f \in 1..RunnerFiles |->
                  IF st[f] = "completed" THEN DoneFile(f, serviceName)
                  ELSE [NewFile(f) EXCEPT !.transcription_status = st[f]]]
  /\ batches = <<>>
  /\ api = <<>>
  /\ subPc = "idle"
  /\ subFiles = <<>>
  /\ subRows = 0
  /\ subErr = "none"
  /\ RunnerConstructed
  /\ sumRet = NoSummaryCall
  /\ BatchSummariesIdle
  /\ ReconcilerIdle
  /\ InitAux

\* GET /documents can be asked in every state while the background
\* summarizer runs and the directory is scanned again
NextListing ==
  \/ SummarizerRun
  \/ SummarizerFetch
  \/ SummarizerGenerate
  \/ SummarizerAfterBatch
  \/ SummarizerCleanup
  \/ ScanAndPopulateDocuments

SpecListing == InitListing /\ [][NextListing]_vars

\* the reconciler followed line by line: every file has been submitted in
\* one job, which the service is working on
InitRecon ==
  /\ documents = [d \in DocIds |-> NewDocument(d, "wartime_letters")]
  /\ files = [f \in FileIds |-> [NewFile(f) EXCEPT !.transcription_status = "submitted"]]
  /\ api = <<[CreatedJob(SortedSeq(FileIds)) EXCEPT !.status = "in_progress"]>>
  /\ batches = [b \in {1} |-> NewBatchRow(CreatedJob(SortedSeq(FileIds)), SortedSeq(FileIds))]
  /\ subPc = "idle"
  /\ subFiles = <<>>
  /\ subRows = 0
  /\ subErr = "none"
  /\ RunnerConstructed
  /\ serviceName = "openai"
  /\ sumRet = NoSummaryCall
  /\ BatchSummariesIdle
  /\ ReconcilerIdle
  /\ InitAux

NextRecon ==
  \/ ApiCompleteAnyShape(1)
  \/ CheckTranscriptionBatches
  \/ ProcessBegin
  \/ ProcessNextBatch
  \/ ProcessLine
  \/ ProcessMark
  \/ ProcessInterrupted

SpecRecon == InitRecon /\ [][NextRecon]_vars

\* process-results followed line by line while cleanup-failed is run as
\* another command on the same database
NextReconSweep ==
  \/ ApiCompleteAnyShape(1)
  \/ CheckTranscriptionBatches
  \/ ProcessBegin
  \/ ProcessNextBatch
  \/ ProcessLine
  \/ ProcessMark
  \/ ProcessInterrupted
  \/ CleanupFailedBatches

SpecReconSweep == InitRecon /\ [][NextReconSweep]_vars


\* the bulk path and one runner working on the same store
Init == InitBulk

Next ==
  \/ SubmitBegin /\ Len(api) < PipelineBatches
  \/ SubmitUpload
  \/ SubmitCreateJob
  \/ SubmitInsertRow
  \/ SubmitMarkFiles
  \/ CheckTranscriptionBatches
  \/ ProcessTranscriptionResults
  \/ CleanupFailedBatches
  \/ \E b \in 1..PipelineBatches : ApiStart(b)
  \/ \E b \in 1..PipelineBatches : ApiComplete(b)
  \/ Run
  \/ LoopTest
  \/ Fetch
  \/ Invoke
  \/ WriteBackSuccess
  \/ WriteBackFailure
  \/ AfterBatch
  \/ Cleanup

Spec == Init /\ [][Next]_vars

\* the summarizer called for one document read page by page: the pages were
\* inserted in any order, each is in any of the four statuses, a completed
\* page has its own text, and a page that is not completed can hold the text
\* of an earlier pass
CombinePages == 3

PageText(f) == [src |-> "page", job |-> f]

InitCombine ==
  /\ serviceName = "openai"
  /\ documents = [d \in DocIds |-> NewDocument(d, "wartime_letters")]
  /\ \E part \in {g \in [1..CombinePages -> 1..CombinePages] :
                     \A i, j \in 1..CombinePages : i # j => g[i] # g[j]},
        st \in [1..CombinePages -> Statuses],
        kept \in SUBSET (1..CombinePages) :
       files = [f \in 1..CombinePages |->
                  [document_id |-> 1, part_number |-> part[f],
                   transcription |-> IF st[f] = "completed" \/ f \in kept
                                     THEN PageText(f) ELSE NullText,
                   transcription_status |-> st[f],
                   transcription_metadata |->
                     IF st[f] = "completed"
                     THEN Meta("ok", serviceName, ServiceModel(serviceName), "", 0, FALSE)
                     ELSE NullMeta]]
  /\ batches = <<>>
  /\ api = <<>>
  /\ subPc = "idle"
  /\ subFiles = <<>>
  /\ subRows = 0
  /\ subErr = "none"
  /\ RunnerConstructed
  /\ sumRet = NoSummaryCall
  /\ BatchSummariesIdle
  /\ ReconcilerIdle
  /\ InitAux

NextCombine ==
  \/ \E d \in DocIds : GenerateSummaryNoText(d)
  \/ \E d \in DocIds : GenerateSummaryExists(d)
  \/ \E d \in DocIds : GenerateSummarySaved(d)
  \/ \E d \in DocIds : GenerateSummaryFails(d)

SpecCombine == InitCombine /\ [][NextCombine]_vars

\* the store after the scan, every file a pending letter, and the
\* background transcriber started by hand once or twice
InitPeers ==
  /\ serviceName = "openai"
  /\ documents = [d \in DocIds |-> NewDocument(d, "wartime_letters")]
  /\ files = [f \in FileIds |-> NewFile(f)]
  /\ batches = <<>>
  /\ api = <<>>
  /\ subPc = "idle"
  /\ subFiles = <<>>
  /\ subRows = 0
  /\ subErr = "none"
  /\ RunnerConstructed
  /\ sumRet = NoSummaryCall
  /\ BatchSummariesIdle
  /\ ReconcilerIdle
  /\ InitAux

NextPeers ==
  \/ \E r \in Transcribers : TranscriberRun(r)
  \/ \E r \in Transcribers : TranscriberFetch(r)
  \/ \E r \in Transcribers : TranscriberInvoke(r)
  \/ \E r \in Transcribers : TranscriberSuccess(r)
  \/ \E r \in Transcribers : TranscriberFailure(r)

SpecPeers == InitPeers /\ [][NextPeers]_vars

\* the reconciler followed line by line on a job that holds every file but
\* the last one, which is in any status of its own
JobMembers == SortedSeq(1..(RunnerFiles - 1))

InitMembers ==
  /\ documents = [d \in DocIds |-> NewDocument(d, "wartime_letters")]
  /\ serviceName = "openai"
  /\ \E st \in Statuses \ {"submitted"} :
       files = [f \in 1..RunnerFiles |->
                  IF f < RunnerFiles
                  THEN [NewFile(f) EXCEPT !.transcription_status = "submitted"]
                  ELSE IF st = "completed" THEN DoneFile(f, serviceName)
                  ELSE [NewFile(f) EXCEPT !.transcription_status = st]]
  /\ api = <<[CreatedJob(JobMembers) EXCEPT !.status = "in_progress"]>>
  /\ batches = [b \in {1} |-> NewBatchRow(CreatedJob(JobMembers), JobMembers)]
  /\ subPc = "idle"
  /\ subFiles = <<>>
  /\ subRows = 0
  /\ subErr = "none"
  /\ RunnerConstructed
  /\ sumRet = NoSummaryCall
  /\ BatchSummariesIdle
  /\ ReconcilerIdle
  /\ InitAux

NextMembers ==
  \/ ApiCompleteForeign(1)
  \/ CheckTranscriptionBatches
  \/ ProcessBegin
  \/ ProcessNextBatch
  \/ ProcessLine
  \/ ProcessMark
  \/ ProcessInterrupted

SpecMembers == InitMembers /\ [][NextMembers]_vars

\* the reconciler followed line by line on a table whose ids have one, two
\* or three digits, some of them the head or the tail of another: every
\* file has been submitted in one job, which the service is working on
IdPool == {1, 10, 11, 101, 110}

InitRoundTrip ==
  /\ documents = [d \in DocIds |-> NewDocument(d, "wartime_letters")]
  /\ \E S \in {T \in SUBSET IdPool : Cardinality(T) = NumFiles} :
       /\ files = [f \in S |-> [NewFile(f) EXCEPT !.transcription_status = "submitted"]]
       /\ api = <<[CreatedJob(SortedSeq(S)) EXCEPT !.status = "in_progress"]>>
       /\ batches = [b \in {1} |-> NewBatchRow(CreatedJob(SortedSeq(S)), SortedSeq(S))]
  /\ subPc = "idle"
  /\ subFiles = <<>>
  /\ subRows = 0
  /\ subErr = "none"
  /\ RunnerConstructed
  /\ serviceName = "openai"
  /\ sumRet = NoSummaryCall
  /\ BatchSummariesIdle
  /\ ReconcilerIdle
  /\ InitAux

NextRoundTrip ==
  \/ ApiComplete(1)
  \/ CheckTranscriptionBatches
  \/ ProcessBegin
  \/ ProcessNextBatch
  \/ ProcessLine
  \/ ProcessMark
  \/ ProcessInterrupted

SpecRoundTrip == InitRoundTrip /\ [][NextRoundTrip]_vars

\* ============================================================== properties
StatusOf(id) == files[id].transcription_status

\* C1. At-most-once reconciliation: a batch whose processed marker is set is
\* never selected again, so right after a call of processTranscriptionResults
\* a second call selects no batch that has results, changes no row of
\* document_files and of transcription_batches, and counts no line
\* (processedCount = 0, errorCount = 0): two calls leave what one call leaves.
C1_AtMostOnce ==
  [][ProcessTranscriptionResults =>
       LET n == Cardinality(CompletedUnprocessed(batches'))
           again == ProcessResultsOutcome(files', batches', api', n)
       IN /\ \A b \in DOMAIN batches :
               batches'[b].processed_at = SET => b \notin CompletedUnprocessed(batches')
          /\ again.files = files'
          /\ again.batches = batches'
          /\ again.processed = 0
          /\ again.errors = 0]_vars

\* a batch has been processed and a file holds the text of its output
C1_Witness ==
  \E b \in DOMAIN batches :
    /\ batches[b].processed_at = SET
    /\ ~batches[b].cleaned
    /\ \E id \in DOMAIN files :
         /\ StatusOf(id) = "completed"
         /\ files[id].transcription = BatchText(b)

\* C2. All-or-nothing submission: when createTranscriptionBatch throws at the
\* upload or at the creation of the job, the table of batches has the rows it
\* had when the call began and every file of the call is still pending.
C2_AllOrNothing ==
  [][(SubmitThrow /\ subPc \in {"upload", "create"}) =>
       /\ Cardinality(DOMAIN batches') = subRows
       /\ \A id \in SeqToSet(subFiles) : files'[id].transcription_status = "pending"]_vars

\* a call has thrown at the creation of the job
C2_Witness ==
  /\ subPc = "idle"
  /\ subErr = "create"
  /\ \E id \in DOMAIN files : StatusOf(id) = "pending"

\* what cleanupFailedBatches leaves when it is called in the current state
Swept == CleanupOutcome(files, batches)

\* C3 as written: every batch with failed_count > 0 and processed_at null has,
\* after cleanupFailedBatches, all its files pending and its marker set
C3_AsWritten ==
  subPc = "idle" =>
    \A b \in DOMAIN batches :
      (batches[b].failed_count > 0 /\ batches[b].processed_at = NULL) =>
        /\ Swept.batches[b].processed_at = SET
        /\ \A id \in SeqToSet(batches[b].file_ids) :
             Swept.files[id].transcription_status = "pending"

\* C3. Recovery sweep: every batch with status completed, failed_count > 0
\* and processed_at null has, after cleanupFailedBatches, all its files
\* pending and its marker set; a second call changes no batch and no file.
C3_Sweep ==
  subPc = "idle" =>
    /\ \A b \in DOMAIN batches :
         (/\ batches[b].status = "completed"
          /\ batches[b].failed_count > 0
          /\ batches[b].processed_at = NULL) =>
           /\ Swept.batches[b].processed_at = SET
           /\ \A id \in SeqToSet(batches[b].file_ids) :
                Swept.files[id].transcription_status = "pending"
    /\ CleanupOutcome(Swept.files, Swept.batches).files = Swept.files
    /\ CleanupOutcome(Swept.files, Swept.batches).batches = Swept.batches
    /\ CleanupOutcome(Swept.files, Swept.batches).cleaned = 0

\* a batch with failed requests has been swept and its files are pending
C3_Witness ==
  \E b \in DOMAIN batches :
    /\ batches[b].cleaned
    /\ batches[b].failed_count > 0
    /\ \A id \in SeqToSet(batches[b].file_ids) : StatusOf(id) = "pending"

\* C4 as written: the status of a file is always one of the four and changes
\* only pending -> submitted | completed | failed and
\* submitted -> completed | failed | pending
AllowedStep(a, b) ==
  \/ a = b
  \/ a = "pending" /\ b \in {"submitted", "completed", "failed"}
  \/ a = "submitted" /\ b \in {"completed", "failed", "pending"}

C4_Lifecycle ==
  [][\A id \in DOMAIN files \cap DOMAIN files' :
       /\ files'[id].transcription_status \in Statuses
       /\ AllowedStep(StatusOf(id), files'[id].transcription_status)]_vars

\* C5 as written: once createTranscriptionBatch is over, whether it returned
\* or threw, every job the service holds that is not yet completed, failed or
\* expired has its row in transcription_batches and no pending file
C5_Atomicity ==
  subPc = "idle" =>
    \A b \in DOMAIN api :
      api[b].status \notin ApiTerminal =>
        /\ b \in DOMAIN batches
        /\ \A id \in SeqToSet(api[b].file_ids) : StatusOf(id) # "pending"

\* the messages of the failures the claim calls transient
TransientMessages ==
  {e.message : e \in {x \in VendorErrors("openai") \cup VendorErrors("gemini") :
                        x.cause \in TransientCauses}}

\* C6 as written: when transcribeFile writes back a transient failure (rate
\* limit, quota, overload, timeout) the file is pending and keeps its text
C6_Transient ==
  [][\A id \in DOMAIN files \cap DOMAIN files' :
       (/\ files'[id].transcription_metadata # files[id].transcription_metadata
        /\ files'[id].transcription_metadata.kind = "error"
        /\ files'[id].transcription_metadata.error \in TransientMessages) =>
         /\ files'[id].transcription_status = "pending"
         /\ files'[id].transcription = files[id].transcription]_vars

PendingLetters == PendingIds(files, documents, "wartime_letters")
PendingAll == PendingIds(files, documents, NoFilter)

\* The files that were pending when run() began: when every call succeeded
\* each success completed one of them, so their number is the number of
\* successes plus the number still pending.

\* C8 as written: every call succeeded and n <= batchSize files were pending:
\* run() ends with none pending, n successes and the second fetch empty
C8_AsWritten ==
  (/\ pc = "done" /\ ~stopCalled /\ stats.totalFailed = 0
   /\ stats.totalSuccessful + Cardinality(PendingAll) <= BatchSize) =>
    /\ PendingAll = {}
    /\ stats.totalProcessed = stats.totalSuccessful
    /\ batchCount = (IF stats.totalSuccessful = 0 THEN 1 ELSE 2)
    /\ ~isRunning

\* C8. Synchronous completion: every call succeeded, stop() was not called
\* and n <= batchSize files of documents of type wartime_letters were
\* pending: run() ends with none of them pending, n successes, no failure,
\* and it ends at the first fetch that finds nothing (the second when n > 0).
C8_Completion ==
  (/\ pc = "done" /\ ~stopCalled /\ stats.totalFailed = 0
   /\ stats.totalSuccessful + Cardinality(PendingLetters) <= BatchSize) =>
    /\ PendingLetters = {}
    /\ stats.totalProcessed = stats.totalSuccessful
    /\ batchCount = (IF stats.totalSuccessful = 0 THEN 1 ELSE 2)
    /\ ~isRunning

\* a run that completed a full batch and ended at the empty second fetch
C8_Witness ==
  /\ pc = "done" /\ ~stopCalled
  /\ stats.totalFailed = 0
  /\ stats.totalSuccessful = BatchSize
  /\ batchCount = 2
  /\ PendingLetters = {}

PartOf(id) == files[id].part_number

\* C9 as written: the files getPendingFiles returns are pending, at most
\* limit, ascending by date of the document and, within a document, by part
C9_FetchOrder ==
  [][(pc = "fetch" /\ pc' = "file") =>
       /\ Len(queue') <= BatchSize
       /\ \A i \in DOMAIN queue' : StatusOf(queue'[i]) = "pending"
       /\ \A i, j \in DOMAIN queue' :
            i < j =>
              \/ DateOf(files, documents, queue'[i]) < DateOf(files, documents, queue'[j])
              \/ /\ DateOf(files, documents, queue'[i]) = DateOf(files, documents, queue'[j])
                 /\ (files[queue'[i]].document_id = files[queue'[j]].document_id
                       => PartOf(queue'[i]) < PartOf(queue'[j]))]_vars

\* C10 as written: generateSummary for a document that has a summary calls no
\* service, writes nothing and returns the summary the document has
C10_Idempotent ==
  [][\A d \in DocIds :
       (GenerateSummary(d) /\ Truthy(documents[d].summary)) =>
         /\ ~sumRet'.invoked
         /\ documents' = documents
         /\ files' = files
         /\ sumRet'.success
         /\ sumRet'.summary = documents[d].summary]_vars

\* C11 as written: in generateBatchSummaries a document that has a summary is
\* skipped when force is not set, and when force is set the service is
\* called for it and a successful result replaces the stored summary
C11_ForcedRegeneration ==
  [][(/\ sumPc = "batch" /\ sumQueue # <<>> /\ sumQueue' = Tail(sumQueue)
      /\ Truthy(documents[Head(sumQueue)].summary)) =>
       IF sumForce
       THEN /\ sumRet'.documentId = Head(sumQueue)
            /\ sumRet'.invoked
            /\ sumRet'.success =>
                 /\ ~sumRet'.alreadyExists
                 /\ documents'[Head(sumQueue)].summary = sumRet'.summary
       ELSE /\ documents' = documents
            /\ sumRet' = sumRet
            /\ sumCount'.skipped = sumCount.skipped + 1]_vars

\* the step of the reconciler that handles the line at the head of recLines
LineStep ==
  /\ recPc = "lines"
  /\ recPc' = "lines"
  /\ recLines # <<>>
  /\ recLines' = Tail(recLines)

\* one of the two places of a result line where the text can be holds a text
YieldsText(line) ==
  \/ line.output = "message" /\ Truthy(line.text)
  \/ Truthy(line.output_text)

\* C12 as written: a result line that reports no error and carries a well
\* formed custom_id is counted as an error only when neither output_text nor
\* the structured output list holds a text, and otherwise its unit becomes
\* completed with that text
C12_ShapeFallback ==
  [][(/\ LineStep
      /\ Head(recLines).json
      /\ Head(recLines).error = ""
      /\ ParseCustomId(Head(recLines).custom_id) \in DOMAIN files
      /\ YieldsText(Head(recLines))) =>
       /\ recCount'.errors = recCount.errors
       /\ files'[ParseCustomId(Head(recLines).custom_id)].transcription_status = "completed"
       /\ Truthy(files'[ParseCustomId(Head(recLines).custom_id)].transcription)]_vars

\* the step in which a call of processTranscriptionResults returns
ReturnStep == recPc = "batch" /\ recPc' = "idle" /\ ~recRet'.threw

\* C13: a result line whose custom_id does not match transcribe-file-<digits>
\* changes no unit and adds one to the error count, the call goes on with the
\* next line, and when the call returns the job has its processed marker
C13_MalformedId ==
  /\ [][(LineStep /\ Head(recLines).json
           /\ ParseCustomId(Head(recLines).custom_id) = NoMatch) =>
          /\ files' = files
          /\ recCount'.errors = recCount.errors + 1
          /\ recCount'.processed = recCount.processed]_vars
  /\ [][ReturnStep =>
          \A b \in DOMAIN batches :
            (batches[b].status = "completed" /\ batches[b].output_file_id # 0)
              => batches'[b].processed_at = SET]_vars

\* a call returned after it counted a line with a malformed custom_id
C13_Witness ==
  /\ recPc = "idle"
  /\ ~recRet.threw
  /\ recRet.errorCount > 0
  /\ \E i \in DOMAIN api[1].output : ParseCustomId(api[1].output[i].custom_id) = NoMatch
  /\ batches[1].processed_at = SET

\* the unit store before any result was applied: every unit submitted
SubmittedStore ==
  [f \in FileIds |-> [NewFile(f) EXCEPT !.transcription_status = "submitted"]]

\* the unit store a call that is not interrupted leaves: every job handled
\* in one go, starting from the submitted units
Uninterrupted ==
  ProcessResultsOutcome(SubmittedStore,
                        [b \in DOMAIN batches |-> [batches[b] EXCEPT !.processed_at = NULL]],
                        api, Cardinality(DOMAIN batches)).files

\* C14: while the lines of a job are handled its processed_at is still null,
\* and a call that returns, whatever number of calls were interrupted before
\* it and wherever they stopped, leaves every unit with the status and the
\* text that one uninterrupted call leaves
C14_CrashSafe ==
  /\ [](recPc = "lines" => batches[Head(recQueue)].processed_at = NULL)
  /\ [][ReturnStep =>
          \A f \in FileIds :
            /\ files'[f].transcription_status = Uninterrupted[f].transcription_status
            /\ files'[f].transcription = Uninterrupted[f].transcription]_vars

\* a call was interrupted after the first line of two, and the next call has
\* downloaded the whole output file again and handled it to the end
C14_Witness ==
  /\ recRet.threw
  /\ recRet.processedCount + recRet.errorCount = 1
  /\ recPc = "lines"
  /\ recLines = <<>>
  /\ Len(api[1].output) = NumFiles
  /\ \E f \in FileIds : files[f].transcription_status = "completed"
  /\ \E f \in FileIds : files[f].transcription_status = "failed"

\* C15 as written: a unit that is submitted leaves that status in the end,
\* whatever the job's terminal status and output, when check-batches,
\* process-results and cleanup-failed keep being run
C15_NoStuck ==
  \A f \in FileIds : (StatusOf(f) = "submitted") ~> (StatusOf(f) # "submitted")

\* the units whose error line the reconciler has written to the store
ItemErrors(b) ==
  {f \in FileIds : /\ StatusOf(f) = "failed"
                   /\ files[f].transcription_metadata.kind = "error"
                   /\ files[f].transcription_metadata.batch_id = b}

\* C16 as written: once the reconciler has handled a completed job, a later
\* cleanupFailedBatches returns the units whose items reported an error to
\* pending, and leaves the other units of the job as they are
C16_Recoverable ==
  \A b \in DOMAIN batches :
    (batches[b].status = "completed" /\ batches[b].processed_at = SET /\ ~batches[b].cleaned) =>
      /\ \A f \in ItemErrors(b) : Swept.files[f].transcription_status = "pending"
      /\ \A f \in SeqToSet(batches[b].file_ids) \ ItemErrors(b) : Swept.files[f] = files[f]

\* the step in which a call of run() finds isRunning set
RefusedStep == isRunning /\ ~runRefused /\ runRefused'

\* C17: a call of run() while isRunning is set changes nothing: the loop
\* that runs stays where it is, no unit is fetched or invoked, no file
\* changes and cleanup() is not run
C17_RunIdempotent ==
  [][RefusedStep =>
       UNCHANGED <<files, isRunning, pc, batchCount, queue, idx, results, stats, cleanups>>]_vars

\* run() was called a second time during a run that then went to its end
\* with a single cleanup
C17_Witness ==
  /\ runRefused
  /\ pc = "done"
  /\ cleanups = 1
  /\ stats.totalProcessed > 0

\* C18: once stop() has been called, a unit that is in flight is still
\* written back (its row and the result of the call), the loop test is not
\* passed again, so no other batch is fetched, and when the run is over
\* cleanup() has run once and isRunning is false
C18_CooperativeStop ==
  /\ [][(stopCalled /\ pc = "inflight" /\ pc' # "inflight") =>
          /\ Len(results') = Len(results) + 1
          /\ results'[Len(results')].fileId = queue[idx]
          /\ files'[queue[idx]].transcription_metadata.kind \in {"ok", "error"}]_vars
  /\ [][(stopCalled /\ pc # "fetch") => pc' # "fetch"]_vars
  /\ [](pc = "done" => (cleanups = 1 /\ ~isRunning))

\* stop() was called during the first batch; every file of the batch was
\* written back, the loop ended with files still pending and cleanup() ran
C18_Witness ==
  /\ stopCalled
  /\ pc = "done"
  /\ batchCount = 1
  /\ Len(results) = Len(queue)
  /\ queue # <<>>
  /\ PendingLetters # {}
  /\ cleanups = 1
  /\ ~isRunning

\* C19 as written: when the process has exited on SIGINT or SIGTERM, no unit
\* is left in flight and cleanup() has run
C19_GracefulSignal ==
  pc = "exited" => (cleanups = 1 /\ Len(results) = idx)

\* C20: the step in which an error leaves the loop changes no file and leads
\* to the finally block; after it no file changes and nothing is fetched or
\* invoked; when the run is over cleanup() has run once and isRunning is false
C20_FatalError ==
  /\ [][(fatal' /\ ~fatal) => (files' = files /\ pc' = "cleanup")]_vars
  /\ [][fatal => (files' = files /\ pc' \in {"cleanup", "done"})]_vars
  /\ []((fatal /\ pc = "done") => (cleanups = 1 /\ ~isRunning))

\* a run wrote a transcription, then an error left the loop and the run
\* ended with a single cleanup
C20_Witness ==
  /\ fatal
  /\ pc = "done"
  /\ cleanups = 1
  /\ ~isRunning
  /\ \E f \in FileIds : StatusOf(f) = "completed"

\* C21 as written: a run that has started and is never stopped ends in the
\* end: the fetch comes back empty and cleanup() has run
C21_RunnerTerminates ==
  isRunning ~> (pc = "done" /\ cleanups = 1)

\* C22: checkTranscriptionBatches changes no row of document_files and no
\* row of documents, whatever the reconciler is doing at that moment
C22_PureMirror ==
  [][CheckTranscriptionBatches => (files' = files /\ documents' = documents)]_vars

\* the tracker has copied the completed status of a job whose files are
\* still as the submitter left them
C22_Witness ==
  /\ batches[1].status = "completed"
  /\ batches[1].output_file_id # 0
  /\ batches[1].processed_at = NULL
  /\ files = SubmittedStore

\* the rows of transcription_batches after a call of checkTranscriptionBatches
Refreshed ==
  [b \in DOMAIN batches |->
     IF batches[b].processed_at = NULL THEN MirrorRow(batches[b], api[b]) ELSE batches[b]]

\* C23 as written: after checkTranscriptionBatches has asked the service
\* about a job, the row holds the status and the completed and failed counts
\* the service reported, also when the status is the one already stored, and
\* for a completed job the output and error file ids
C23_Mirroring ==
  \A b \in DOMAIN batches :
    batches[b].processed_at = NULL =>
      /\ Refreshed[b].status = api[b].status
      /\ Refreshed[b].completed_count = api[b].completed
      /\ Refreshed[b].failed_count = api[b].failed
      /\ api[b].status = "completed" =>
           /\ Refreshed[b].output_file_id = api[b].output_file_id
           /\ Refreshed[b].error_file_id = api[b].error_file_id

\* C24 as written: the stored status of a bulk job, of the transcription
\* pipeline or of the generic engine, is a status the external service has
\* had for that job
C24_StatusReported ==
  /\ \A b \in DOMAIN batches : batches[b].status \in StatusesUpTo(api[b].status)
  /\ \A j \in DOMAIN batch_jobs : batch_jobs[j].status \in StatusesUpTo(jobApi[j].status)

\* unit f is marked submitted and belongs to a bulk job that has its row and
\* that the service has not ended
InFlightBulk(f) ==
  /\ files[f].transcription_status = "submitted"
  /\ \E b \in DOMAIN batches :
       /\ f \in SeqToSet(batches[b].file_ids)
       /\ api[b].status \notin ApiTerminal

\* C25 as written: the runner sends no unit to the transcription service, and
\* writes the status of no unit, while that unit is in a bulk job in flight
C25_NoDuplicateWork ==
  [][(Invoke \/ WriteBackSuccess \/ WriteBackFailure) => ~InFlightBulk(queue[idx])]_vars

\* C26 as written: the transcription_status stored in a row of documents is
\* the status derived from the document's files
C26_AggregateInSync ==
  \A d \in DOMAIN documents :
    documents[d].transcription_status = ListedStatus(files, d)

FilesOf(d) == {f \in DOMAIN files : files[f].document_id = d}

AllCompleted(d) == \A f \in FilesOf(d) : files[f].transcription_status = "completed"

SomeCompleted(d) == \E f \in FilesOf(d) : files[f].transcription_status = "completed"

\* C27: the listing calls a document completed exactly when all its files
\* are completed, partial exactly when some but not all are, pending
\* otherwise; and its status filter keeps exactly the documents it gives
\* that status
C27_DerivedStatus ==
  /\ \A d \in DOMAIN documents :
       /\ ListedStatus(files, d) = "completed" <=> AllCompleted(d)
       /\ ListedStatus(files, d) = "partial" <=> (SomeCompleted(d) /\ ~AllCompleted(d))
       /\ ListedStatus(files, d) = "pending" <=> ~SomeCompleted(d)
  /\ \A s \in ListedStatuses :
       StatusFilter(files, documents, s) =
         {d \in DOMAIN documents : ListedStatus(files, d) = s}

C27_Witness ==
  /\ bsPc = "done"
  /\ \E d \in DOMAIN documents :
       /\ ListedStatus(files, d) = "partial"
       /\ \E f \in FilesOf(d) : files[f].transcription_status = "failed"
       /\ StatusFilter(files, documents, "partial") = {d}
  /\ \E d \in DOMAIN documents : ListedStatus(files, d) = "completed"

\* C28 as written: a scan over the same source files deletes no row of
\* document_files and leaves every row as it was, under the id it had
C28_ScanKeepsUnits ==
  [][ScanAndPopulateDocuments =>
       \A f \in DOMAIN files : f \in DOMAIN files' /\ files'[f] = files[f]]_vars

\* C29 as written: a run of the background summarizer that has started ends
\* in the end: no document is ready any more and cleanup() has run
C29_SummarizerTerminates ==
  bsRunning ~> (bsPc = "done" /\ bsCleanups = 1)

\* C30: the watchdog exits the process only when no request is in flight,
\* the in-flight count is 0 and the last request is older than the timeout
C30_WatchdogSafety ==
  [][(~exited /\ exited') =>
       /\ active = 0
       /\ inFlight = 0
       /\ now - lastRequest > IdleTimeout]_vars

C30_Witness ==
  /\ exited
  /\ lastRequest > 0
  /\ inFlight = 0

C32_MutuallyExclusive ==
  [][\A b \in DOMAIN batches :
       batches[b].processed_at = SET =>
         \A id \in SeqToSet(batches[b].file_ids) \cap DOMAIN files :
           files'[id] = files[id]]_vars

\* C33 as written: when no other command is at work, every unit that
\* cleanupFailedBatches resets is left pending, without transcription text
\* and without metadata
C33_SweepClears ==
  (subPc = "idle" /\ recPc = "idle") =>
    \A b \in FailedUnprocessed(batches) :
      \A id \in SeqToSet(batches[b].file_ids) \cap DOMAIN files :
        /\ Swept.files[id].transcription_status = "pending"
        /\ Swept.files[id].transcription_metadata = NullMeta
        /\ Swept.files[id].transcription = NullText

\* C34 as written: a parsed record of the job being reconciled that reports
\* an error leaves the unit it addresses failed, with the error and the job
\* id in the metadata; every other parsed record leaves the unit it
\* addresses completed, with the extracted text and metadata naming the
\* service, the model and the job id
C34_PerRecord ==
  [][(/\ LineStep
      /\ Head(recLines).json
      /\ ParseCustomId(Head(recLines).custom_id) \in DOMAIN files) =>
       LET line == Head(recLines)
           unit == files'[ParseCustomId(line.custom_id)]
       IN IF line.error # ""
          THEN /\ unit.transcription_status = "failed"
               /\ unit.transcription_metadata =
                    Meta("error", "", "", line.error, Head(recQueue), FALSE)
          ELSE /\ unit.transcription_status = "completed"
               /\ unit.transcription = ExtractText(line).text
               /\ unit.transcription_metadata =
                    Meta("ok", "openai", "gpt-5", "", Head(recQueue), FALSE)]_vars

\* C34 for the records that hold a text: same statement, the second branch
\* taken only when one of the two shapes of the line yielded a text
C34_PerRecordWithText ==
  [][(/\ LineStep
      /\ Head(recLines).json
      /\ ParseCustomId(Head(recLines).custom_id) \in DOMAIN files
      /\ (Head(recLines).error # "" \/ ExtractText(Head(recLines)).found)) =>
       LET line == Head(recLines)
           unit == files'[ParseCustomId(line.custom_id)]
       IN IF line.error # ""
          THEN /\ unit.transcription_status = "failed"
               /\ unit.transcription_metadata =
                    Meta("error", "", "", line.error, Head(recQueue), FALSE)
          ELSE /\ unit.transcription_status = "completed"
               /\ unit.transcription = ExtractText(line).text
               /\ unit.transcription_metadata =
                    Meta("ok", "openai", "gpt-5", "", Head(recQueue), FALSE)]_vars

\* C35 as written: once stop() has been called the runner sends no unit to
\* the transcription service; the unit that was in flight is the last one
C35_NoInvokeAfterStop ==
  [][Invoke => ~stopCalled]_vars

\* the completed pages of document d with page index p and above, page by
\* page, a page break before every page but the first one written
RECURSIVE PagesFrom(_, _, _)
PagesFrom(d, p, first) ==
  IF p > Cardinality(DOMAIN files) THEN <<>>
  ELSE LET here == {id \in DOMAIN files :
                      /\ files[id].document_id = d
                      /\ files[id].part_number = p
                      /\ files[id].transcription_status = "completed"}
       IN IF here = {} THEN PagesFrom(d, p + 1, first)
          ELSE (IF first THEN <<>> ELSE <<PageBreak>>)
               \o <<files[CHOOSE id \in here : TRUE].transcription>>
               \o PagesFrom(d, p + 1, FALSE)

\* C36: the text a call of generateSummary sent to the service is the
\* transcriptions of the completed pages of the document by ascending page
\* index, with a page break between two of them and nothing of a page that
\* is pending, submitted or failed; for a document without a completed page
\* the call returns a failure and the service was not called
C36_SummaryInput ==
  /\ sumRet.invoked => sumRet.input = PagesFrom(sumRet.documentId, 1, TRUE)
  /\ (/\ sumRet.documentId \in DocIds
      /\ \A id \in DOMAIN files :
           files[id].document_id = sumRet.documentId =>
             files[id].transcription_status # "completed") =>
       /\ ~sumRet.invoked
       /\ ~sumRet.success

\* the service was called for a document whose second and third page are
\* completed and were inserted in the other order, and whose first page is
\* not completed but holds a text
C36_Witness ==
  /\ sumRet.invoked
  /\ sumRet.input = <<PageText(3), PageBreak, PageText(2)>>
  /\ files[3].part_number = 2
  /\ files[2].part_number = 3
  /\ files[1].transcription_status = "failed"
  /\ files[1].transcription = PageText(1)

\* generateSummary has returned a failure for a document without a completed
\* page
C36_WitnessNoPage ==
  /\ sumRet.documentId = 2
  /\ ~sumRet.invoked
  /\ ~sumRet.success

\* C37 as written: whenever the background summarizer stores a summary for
\* a document, every page of that document is completed
C37_OnlyCompletedDocuments ==
  [][SummarizerGenerate =>
       \A d \in DocIds :
         documents'[d].summary # documents[d].summary =>
           \A id \in FilesOf(d) : files[id].transcription_status = "completed"]_vars

\* the file that process r is handling
UnitOf(r) == tQueue[r][tIdx[r]]

\* C38: as long as one process alone has been started, it sends a file it
\* has sent before only when the call that ended last for that file ended
\* in a retryable failure; with two processes started nothing keeps both
\* from fetching the same pending file and sending it (the witness)
C38_SingleRunnerResend ==
  [][\A r \in Transcribers :
       (/\ TranscriberInvoke(r)
        /\ \A o \in Transcribers \ {r} : tPc[o] = "idle"
        /\ UnitOf(r) \in sent[r]) =>
         lastEnd[UnitOf(r)] = "retryable"]_vars

\* two processes have both sent the same file, which is in flight twice
C38_Witness ==
  /\ tPc[1] = "inflight"
  /\ tPc[2] = "inflight"
  /\ UnitOf(1) = UnitOf(2)
  /\ UnitOf(1) \in sent[1] \cap sent[2]
  /\ lastEnd[UnitOf(1)] = "none"

\* one process alone has sent a file a second time
C38_WitnessResend ==
  /\ tPc[2] = "idle"
  /\ tPc[1] = "inflight"
  /\ tBatchCount[1] = 2
  /\ lastEnd[UnitOf(1)] = "retryable"

\* C39 as written: a step of processTranscriptionResults on a job changes
\* no file outside the file_ids of that job, whatever file the custom_id of
\* the line names
C39_WritesInsideJob ==
  [][ProcessLine =>
       \A id \in DOMAIN files \ SeqToSet(batches[Head(recQueue)].file_ids) :
         files'[id] = files[id]]_vars

\* C39 for the output files the service makes from the input file, in which
\* every line bears the custom_id of a request of the job
C39_WritesInsideJobOwnLines ==
  [][(ProcessLine /\ ParseCustomId(Head(recLines).custom_id)
                       \in SeqToSet(batches[Head(recQueue)].file_ids) \cup {NoMatch}) =>
       \A id \in DOMAIN files \ SeqToSet(batches[Head(recQueue)].file_ids) :
         files'[id] = files[id]]_vars

\* C40: the custom_id made for a file id is parsed back to that id, and the
\* custom_ids of the files of one job differ from one another; so every
\* line of the output file of a job leads to the file it was made for, and
\* a line that yields a text changes that file and no other
C40_RoundTrip ==
  /\ \A id \in DOMAIN files : ParseCustomId(CustomId(id)) = id
  /\ \A b \in DOMAIN batches :
       \A i, j \in DOMAIN batches[b].file_ids :
         i # j => CustomId(batches[b].file_ids[i]) # CustomId(batches[b].file_ids[j])
  /\ \A b \in DOMAIN api :
       \A i, j \in DOMAIN api[b].output :
         /\ ParseCustomId(api[b].output[i].custom_id) \in SeqToSet(api[b].file_ids)
         /\ api[b].output[i].custom_id = CustomId(ParseCustomId(api[b].output[i].custom_id))
         /\ i # j => api[b].output[i].custom_id # api[b].output[j].custom_id

\* the lines of a job over the files 11 and 110 have been handled: the line
\* of 110 gave it its text and the line of 11 its error
C40_Witness ==
  /\ DOMAIN files = {11, 110}
  /\ recPc = "lines"
  /\ recLines = <<>>
  /\ files[110].transcription_status = "completed"
  /\ files[110].transcription = BatchText(1)
  /\ files[11].transcription_status = "failed"

====
